---- MODULE Spec2Model ----
(***************************************************************************)
(* BetBest: the composite scoring engine (calculateStats) and the          *)
(* cross-source entity resolver (teamsMatch, findTeamXG, findTeamElo).     *)
(*                                                                         *)
(* Numbers.  The engine computes in IEEE doubles.  Here every score in     *)
(* [0,1] is an integer number of 1/SCALE units (SCALE = 10000); the        *)
(* factor weights are kept as exact fractions num/den; the final           *)
(* renormalisation and the largest-remainder rounding are exact rational   *)
(* arithmetic.  Math.exp and Math.tanh are tabulated (BellTable,           *)
(* TanhTable) and interpolated linearly.  NaN is tracked as a flag.        *)
(*                                                                         *)
(* Strings are sequences of Unicode code points.                           *)
(***************************************************************************)
EXTENDS Integers, Sequences, FiniteSets, TLC

VARIABLES
    input,      \* the CalculateStatsInput handed to calculateStats
    result,     \* what the call produced (None before the call)
    pc,         \* "ready" before the call, "done" after it
    nameA,      \* resolver: first name / the name looked up
    nameB,      \* resolver: second name
    table,      \* resolver: the provider table (set of provider titles)
    answer,     \* resolver: result of the last resolver operation
    op          \* resolver: which operation produced answer ("none" before)

statsVars == <<input, result, pc>>
namesVars == <<nameA, nameB, table, answer, op>>
vars == <<input, result, pc, nameA, nameB, table, answer, op>>

-----------------------------------------------------------------------------
(* Generic helpers *)

SCALE == 100 * 100

Min(a, b) == IF a <= b THEN a ELSE b
Max(a, b) == IF a >= b THEN a ELSE b
Abs(x) == IF x < 0 THEN 0 - x ELSE x

\* An optional value is a sequence of length 0 (null / undefined) or 1.
Absent == <<>>
Some(v) == <<v>>
Present(o) == Len(o) = 1
Val(o) == o[1]

\* A numeric field that is null, undefined or NaN.
NotNum == 0 - 1000000000

RECURSIVE SumSeq(_)
SumSeq(s) == IF s = <<>> THEN 0 ELSE Head(s) + SumSeq(Tail(s))

-----------------------------------------------------------------------------
(* Scalar transforms of prediction-engine.ts *)

safeNum(value, fallback) == IF value = NotNum THEN fallback ELSE value

\* Recency weights of formScore, in hundredths.
FormWeights == <<30, 25, 20, 15, 10>>
FormWeight(i) == IF i <= Len(FormWeights) THEN FormWeights[i] ELSE 10
FormPts(r) == IF r = "W" THEN SCALE ELSE IF r = "D" THEN (4 * SCALE) \div 10 ELSE 0

\* form: Absent (null) or Some(sequence of "W"/"D"/"L", most recent first).
formScore(form) ==
    IF ~Present(form) \/ Val(form) = <<>> THEN SCALE \div 2
    ELSE LET results == Val(form)
             weighted == SumSeq([i \in 1..Len(results) |-> FormPts(results[i]) * FormWeight(i)])
             totalWeight == SumSeq([i \in 1..Len(results) |-> FormWeight(i)])
         IN IF totalWeight > 0 THEN weighted \div totalWeight ELSE SCALE \div 2

\* record: Absent or Some([played, wins, draws, losses]).
recordPPM(record) ==
    IF ~Present(record) \/ Val(record).played = 0 THEN SCALE \div 2
    ELSE ((Val(record).wins * 3 + Val(record).draws) * SCALE) \div (Val(record).played * 3)

eloToScore(elo) == Max(0, Min(SCALE, ((elo - 1350) * SCALE) \div 750))

\* Implied probability of decimal odds, in 1/SCALE units.  Odds are given in
\* hundredths (250 = 2.50); 0 stands for any odds <= 0; Tiny for a positive
\* subnormal whose reciprocal overflows to Infinity.
Tiny == 0 - 1
Infinity == 0 - 2
oddsToProb(odds) ==
    IF odds = Tiny THEN Infinity
    ELSE IF odds > 0 THEN (100 * SCALE) \div odds ELSE 0

-----------------------------------------------------------------------------
(* Strings: sequences of code points *)

IsCombiningMark(c) == c >= 768 /\ c <= 879          \* [U+0300-U+036F]
IsLowerAlnum(c) == (c >= 97 /\ c <= 122) \/ (c >= 48 /\ c <= 57)   \* [a-z0-9]
IsSpace(c) == c = 32

\* String.prototype.normalize("NFD") on the precomposed letters that occur
\* in club and player names: base letter followed by its combining mark.
Decompose(c) ==
    CASE c = 201 -> <<69, 769>>      \* E-acute
      [] c = 233 -> <<101, 769>>     \* e-acute
      [] c = 232 -> <<101, 768>>     \* e-grave
      [] c = 225 -> <<97, 769>>      \* a-acute
      [] c = 243 -> <<111, 769>>     \* o-acute
      [] c = 246 -> <<111, 776>>     \* o-umlaut
      [] c = 252 -> <<117, 776>>     \* u-umlaut
      [] c = 220 -> <<85, 776>>      \* U-umlaut
      [] OTHER -> <<c>>

RECURSIVE NFD(_)
NFD(s) == IF s = <<>> THEN <<>> ELSE Decompose(Head(s)) \o NFD(Tail(s))

\* String.prototype.toLowerCase on ASCII and Latin-1 letters.
LowerChar(c) ==
    IF c >= 65 /\ c <= 90 THEN c + 32
    ELSE IF c >= 192 /\ c <= 222 /\ c # 215 THEN c + 32
    ELSE c

toLowerCase(s) == [i \in 1..Len(s) |-> LowerChar(s[i])]

Keep(s, Test(_)) == SelectSeq(s, Test)
IsNotMark(c) == ~IsCombiningMark(c)
IsLowerAlnumOrSpace(c) == IsLowerAlnum(c) \/ IsSpace(c)

\* String.prototype.includes
includes(hay, needle) ==
    \E i \in 0..(Len(hay) - Len(needle)) : SubSeq(hay, i + 1, i + Len(needle)) = needle

\* String.prototype.split(" "): pieces between single separators, empty ones kept.
RECURSIVE splitOn(_, _)
splitOn(s, sep) ==
    IF \A i \in 1..Len(s) : s[i] # sep THEN <<s>>
    ELSE LET i == CHOOSE k \in 1..Len(s) : s[k] = sep /\ \A j \in 1..(k - 1) : s[j] # sep
         IN <<SubSeq(s, 1, i - 1)>> \o splitOn(SubSeq(s, i + 1, Len(s)), sep)

\* String.prototype.split(/\s+/): a run of separators counts once.
splitRuns(s) ==
    LET pieces == splitOn(s, 32)
        idx == {i \in 1..Len(pieces) : pieces[i] # <<>> \/ i = 1 \/ i = Len(pieces)}
        Nth(k) == CHOOSE i \in idx : Cardinality({j \in idx : j < i}) = k - 1
    IN [k \in 1..Cardinality(idx) |-> pieces[Nth(k)]]

RECURSIVE joinAll(_)
joinAll(ws) == IF ws = <<>> THEN <<>> ELSE Head(ws) \o joinAll(Tail(ws))

\* nfdLower of prediction-engine.ts / players-api.ts
nfdLower(s) == toLowerCase(Keep(NFD(s), IsNotMark))

-----------------------------------------------------------------------------
(* calculateStats: the per-factor scores (home side, away side) *)

Half == SCALE \div 2

\* Mutant: a missing rating scored as the default rating 1650 instead of 0.5.
HomeEloScoreDefaultRating(in) ==
    eloToScore(IF Present(in.homeElo) THEN safeNum(Val(in.homeElo).elo, 1650) ELSE 1650)

\* 1. ELO rating
HomeEloScore(in) == IF Present(in.homeElo) THEN eloToScore(safeNum(Val(in.homeElo).elo, 1650)) ELSE Half
AwayEloScore(in) == IF Present(in.awayElo) THEN eloToScore(safeNum(Val(in.awayElo).elo, 1650)) ELSE Half

\* 2. xG performance: per-match figures are in hundredths of a goal.
XGScore(xg) ==
    IF Present(xg)
    THEN LET xgpm == safeNum(Val(xg).recentXGPerMatch, safeNum(Val(xg).xGPerMatch, 120))
             xgapm == safeNum(Val(xg).recentXGAPerMatch, safeNum(Val(xg).xGAPerMatch, 120))
             attackScore == Min((xgpm * SCALE) \div 250, SCALE)
             defenseScore == Max(0, SCALE - (xgapm * SCALE) \div 250)
         IN (attackScore * 4 + defenseScore * 6) \div 10
    ELSE Half
HomeXGScore(in) == XGScore(in.homeXG)
AwayXGScore(in) == XGScore(in.awayXG)

\* 3. Form
HomeFormScore(in) == formScore(in.homeStanding.form)
AwayFormScore(in) == formScore(in.awayStanding.form)

\* 4. Home / away record
HomeVenueScore(in) ==
    IF Present(in.homeTactics) /\ Val(in.homeTactics).homeRecord.played > 0
    THEN recordPPM(Some(Val(in.homeTactics).homeRecord))
    ELSE (55 * SCALE) \div 100
AwayVenueScore(in) ==
    IF Present(in.awayTactics) /\ Val(in.awayTactics).awayRecord.played > 0
    THEN recordPPM(Some(Val(in.awayTactics).awayRecord))
    ELSE (45 * SCALE) \div 100

\* 5. xG trend, in hundredths, within [-100, 100]
XGTrendScore(xg) ==
    IF Present(xg) /\ Val(xg).xGTrend # NotNum
    THEN (safeNum(Val(xg).xGTrend, 0) * 100 + SCALE) \div 2
    ELSE Half
HomeXGTrendScore(in) == XGTrendScore(in.homeXG)
AwayXGTrendScore(in) == XGTrendScore(in.awayXG)

\* 6. Injuries
OrEmpty(list) == IF Present(list) THEN Val(list) ELSE <<>>

isCriticalPlayer(injName, criticalPlayerNames) ==
    LET injNorm == nfdLower(injName)
    IN \E k \in 1..Len(criticalPlayerNames) :
          LET critNorm == criticalPlayerNames[k]
              injParts == splitOn(injNorm, 32)
              critParts == splitOn(critNorm, 32)
          IN \/ includes(injNorm, critNorm)
             \/ includes(critNorm, injNorm)
             \/ /\ Len(injParts) >= 2
                /\ Len(critParts) >= 2
                /\ injParts[Len(injParts)] = critParts[Len(critParts)]
                /\ SubSeq(injParts[1], 1, 1) = SubSeq(critParts[1], 1, 1)

RolePenalty(role) == IF role = "both" THEN 20 ELSE IF role = "scorer" THEN 15 ELSE 10

computeInjuryPenalty(injuries, criticals) ==
    LET crit == OrEmpty(criticals)
        inj == OrEmpty(injuries)
        criticalPlayerNames == [k \in 1..Len(crit) |-> nfdLower(crit[k].player.name)]
        CritPenalty(ca) ==
            LET contributions == ca.player.goals + ca.player.assists
                productivityFactor == Min((contributions * SCALE) \div 15, SCALE)
            IN (RolePenalty(ca.player.role) * productivityFactor) \div 100
        nonCriticalCount ==
            Cardinality({i \in 1..Len(inj) : ~isCriticalPlayer(inj[i].player, criticalPlayerNames)})
        penalty == SumSeq([k \in 1..Len(crit) |-> CritPenalty(crit[k])])
                   + nonCriticalCount * ((3 * SCALE) \div 100)
    IN Min(penalty, (8 * SCALE) \div 10)

HomeInjScore(in) == SCALE - computeInjuryPenalty(in.homeInjuries, in.homeCriticalAbsences)
AwayInjScore(in) == SCALE - computeInjuryPenalty(in.awayInjuries, in.awayCriticalAbsences)

\* 7. Squad quality (a number, or null / undefined / NaN)
HomeSquadScore(in) == safeNum(in.homeSquadQuality, Half)
AwaySquadScore(in) == safeNum(in.awaySquadQuality, Half)

\* 8. Schedule fatigue
fatigueScoreFn(t) ==
    LET d == t.daysSinceLastMatch
        restScore == IF d = NotNum THEN Half
                     ELSE IF d <= 1 THEN (2 * SCALE) \div 10
                     ELSE IF d = 2 THEN (4 * SCALE) \div 10
                     ELSE IF d <= 4 THEN (6 * SCALE) \div 10
                     ELSE (8 * SCALE) \div 10
        loadScore == Max(0, SCALE - (safeNum(t.matchesLast30Days, 4) * SCALE) \div 12)
    IN (restScore * 6 + loadScore * 4) \div 10
HomeFatigueScore(in) == IF Present(in.fatigue) THEN fatigueScoreFn(Val(in.fatigue).home) ELSE Half
AwayFatigueScore(in) == IF Present(in.fatigue) THEN fatigueScoreFn(Val(in.fatigue).away) ELSE Half

\* 9. Head-to-head
h2hTotal(in) ==
    IF Present(in.headToHead)
    THEN Val(in.headToHead).team1Wins + Val(in.headToHead).draws + Val(in.headToHead).team2Wins
    ELSE 0
HomeH2HScore(in) ==
    IF h2hTotal(in) > 0
    THEN ((Val(in.headToHead).team1Wins * 3 + Val(in.headToHead).draws) * SCALE) \div (h2hTotal(in) * 3)
    ELSE Half
AwayH2HScore(in) ==
    IF h2hTotal(in) > 0
    THEN ((Val(in.headToHead).team2Wins * 3 + Val(in.headToHead).draws) * SCALE) \div (h2hTotal(in) * 3)
    ELSE Half

\* 10. Defensive solidity; goalsAgainstAvg is a decimal string, kept here as
\* its parseFloat value in hundredths (NotNum when it does not parse).
DefScore(played, cleanSheets, goalsAgainstAvg) ==
    LET csRate == IF played > 0 THEN (cleanSheets * SCALE) \div played ELSE 0
        gaAvg == IF goalsAgainstAvg = NotNum THEN 150 ELSE goalsAgainstAvg
    IN (csRate + Max(0, SCALE - (gaAvg * SCALE) \div 300)) \div 2
HomeDefScore(in) ==
    IF Present(in.homeTactics)
    THEN LET t == Val(in.homeTactics)
         IN DefScore(t.homeRecord.played, t.cleanSheets.home, t.goalsAgainstAvg.home)
    ELSE Half
AwayDefScore(in) ==
    IF Present(in.awayTactics)
    THEN LET t == Val(in.awayTactics)
         IN DefScore(t.awayRecord.played, t.cleanSheets.away, t.goalsAgainstAvg.away)
    ELSE Half

\* 11. Strength of schedule
HomeSOSScore(in) == IF Present(in.homeSOS) THEN safeNum(Val(in.homeSOS).sosScore, Half) ELSE Half
AwaySOSScore(in) == IF Present(in.awaySOS) THEN safeNum(Val(in.awaySOS).sosScore, Half) ELSE Half

\* 12. Match context / stakes
stakesValue(stakes) ==
    CASE stakes = "title" -> (65 * SCALE) \div 100
      [] stakes = "europe" -> (58 * SCALE) \div 100
      [] stakes = "midtable" -> (50 * SCALE) \div 100
      [] stakes = "relegation" -> (55 * SCALE) \div 100
ContextScore(ctx, stakes) ==
    IF Present(ctx)
    THEN IF Val(ctx).isDerby
         THEN (stakesValue(stakes) * 85) \div 100 + (Half * 15) \div 100
         ELSE stakesValue(stakes)
    ELSE Half
HomeContextScore(in) ==
    ContextScore(in.matchContext, IF Present(in.matchContext) THEN Val(in.matchContext).homeStakes ELSE "midtable")
AwayContextScore(in) ==
    ContextScore(in.matchContext, IF Present(in.matchContext) THEN Val(in.matchContext).awayStakes ELSE "midtable")

\* 13. Referee profile; avgYellowsPerMatch is in tenths of a card.
RefereeUsed(in) == Present(in.referee) /\ Val(in.referee).matchesOfficiated >= 3
severityScore(ref) == Min(SCALE, ((safeNum(ref.avgYellowsPerMatch, 35) - 20) * SCALE) \div 40)
baseRefScore(ref) ==
    LET penaltyFactor ==
            Min(SCALE, (safeNum(ref.penaltiesAwarded, 0) * SCALE * 10)
                          \div (4 * Max(1, safeNum(ref.matchesOfficiated, 1))))
    IN Max((2 * SCALE) \div 10,
           Min((8 * SCALE) \div 10,
               Half - (severityScore(ref) * 5) \div 100 + (penaltyFactor * 3) \div 100))
HomeRefScore(in) == IF RefereeUsed(in) THEN baseRefScore(Val(in.referee)) ELSE Half
AwayRefScore(in) == IF RefereeUsed(in) THEN baseRefScore(Val(in.referee)) ELSE Half

\* 14. Bookmaker odds, de-margined.  x / total in doubles: Infinity / Infinity
\* and 0 / 0 are NaN (NotNum), finite / Infinity is 0.
totalProb(odds) ==
    LET ps == {oddsToProb(odds.homeWin), oddsToProb(odds.draw), oddsToProb(odds.awayWin)}
    IN IF Infinity \in ps THEN Infinity
       ELSE oddsToProb(odds.homeWin) + oddsToProb(odds.draw) + oddsToProb(odds.awayWin)
ImpliedShare(prob, total) ==
    IF prob = Infinity THEN NotNum
    ELSE IF total = Infinity THEN 0
    ELSE IF total = 0 THEN NotNum
    ELSE (prob * SCALE) \div total
HomeOddsScore(in) ==
    IF Present(in.odds)
    THEN ImpliedShare(oddsToProb(Val(in.odds).homeWin), totalProb(Val(in.odds)))
    ELSE Half
AwayOddsScore(in) ==
    IF Present(in.odds)
    THEN ImpliedShare(oddsToProb(Val(in.odds).awayWin), totalProb(Val(in.odds)))
    ELSE Half

Factors == {"odds", "xG", "venue", "form", "elo", "injuries", "xGTrend", "sos",
            "fatigue", "squad", "h2h", "def", "context", "referee"}

HomeScores(in) ==
    [odds |-> HomeOddsScore(in), xG |-> HomeXGScore(in), venue |-> HomeVenueScore(in),
     form |-> HomeFormScore(in), elo |-> HomeEloScore(in), injuries |-> HomeInjScore(in),
     xGTrend |-> HomeXGTrendScore(in), sos |-> HomeSOSScore(in),
     fatigue |-> HomeFatigueScore(in), squad |-> HomeSquadScore(in),
     h2h |-> HomeH2HScore(in), def |-> HomeDefScore(in),
     context |-> HomeContextScore(in), referee |-> HomeRefScore(in)]
AwayScores(in) ==
    [odds |-> AwayOddsScore(in), xG |-> AwayXGScore(in), venue |-> AwayVenueScore(in),
     form |-> AwayFormScore(in), elo |-> AwayEloScore(in), injuries |-> AwayInjScore(in),
     xGTrend |-> AwayXGTrendScore(in), sos |-> AwaySOSScore(in),
     fatigue |-> AwayFatigueScore(in), squad |-> AwaySquadScore(in),
     h2h |-> AwayH2HScore(in), def |-> AwayDefScore(in),
     context |-> AwayContextScore(in), referee |-> AwayRefScore(in)]

-----------------------------------------------------------------------------
(* calculateStats: weights, composite, draw model, split, clamp, rounding *)

\* Baseline weights, in hundredths.
baseWeights ==
    [odds |-> 25, xG |-> 12, venue |-> 10, form |-> 8, elo |-> 7, injuries |-> 8,
     xGTrend |-> 5, sos |-> 5, fatigue |-> 6, squad |-> 4, h2h |-> 2, def |-> 2,
     context |-> 4, referee |-> 2]

oddsAvailable(in) == Present(in.odds)

nonOddsSum == 100 - baseWeights.odds

\* Mutant: the odds weight shared out equally among the 13 other factors.
AppliedWeightsUniform(available) ==
    IF available
    THEN [num |-> baseWeights, den |-> 100]
    ELSE [num |-> [f \in Factors |-> IF f = "odds" THEN 0 ELSE 13 * baseWeights[f] + 25],
          den |-> 1300]

\* The weights w applied in the composite sum, as the fractions num[f] / den.
AppliedWeights(available) ==
    IF available
    THEN [num |-> baseWeights, den |-> 100]
    ELSE [num |-> [f \in Factors |-> IF f = "odds" THEN 0 ELSE baseWeights[f]],
          den |-> nonOddsSum]

\* The factors in the order of the terms of homeTotal / awayTotal.
SumOrder == <<"odds", "xG", "venue", "form", "elo", "injuries", "xGTrend", "sos",
              "fatigue", "squad", "h2h", "def", "context", "referee">>

IsNaN(x) == x = NotNum

\* Sum of score * weight numerator; in units of 1 / (SCALE * den).
WeightedTotal(scores, w) ==
    IF \E f \in Factors : IsNaN(scores[f]) THEN NotNum
    ELSE SumSeq([i \in 1..Len(SumOrder) |-> scores[SumOrder[i]] * w.num[SumOrder[i]]])

\* Division rounding toward zero, so that diff(-x) = -diff(x).
TDiv(a, b) == IF a >= 0 THEN a \div b ELSE 0 - ((0 - a) \div b)

diff(in) ==
    LET w == AppliedWeights(oddsAvailable(in))
        homeTotal == WeightedTotal(HomeScores(in), w)
        awayTotal == WeightedTotal(AwayScores(in), w)
    IN IF IsNaN(homeTotal) \/ IsNaN(awayTotal) THEN NotNum
       ELSE TDiv(homeTotal - awayTotal, w.den)

\* Linear interpolation in a table of f(0), f(Step), f(2 Step), ...; the last
\* entry stands for every larger argument.
TableStep == SCALE \div 40
Interp(tbl, x) ==
    LET i == x \div TableStep
        r == x % TableStep
    IN IF i + 1 >= Len(tbl) THEN tbl[Len(tbl)]
       ELSE tbl[i + 1] + ((tbl[i + 2] - tbl[i + 1]) * r) \div TableStep

\* 0.38 * Math.exp(-10 * d * d) for d = 0, 0.025, ..., 1.0
BellTable ==
    <<3800, 3776, 3706, 3592, 3438, 3250, 3034, 2798, 2547, 2290, 2034,
      1784, 1545, 1321, 1116, 931, 767, 624, 502, 398, 312, 241, 185, 139,
      104, 76, 56, 40, 28, 20, 14, 9, 6, 4, 3, 2, 1, 1, 0, 0, 0>>

\* Math.tanh(3.4 * d) for d = 0, 0.025, ..., 1.5
TanhTable ==
    <<0, 848, 1684, 2496, 3275, 4011, 4699, 5335, 5915, 6440, 6911, 7329,
      7699, 8023, 8306, 8551, 8764, 8947, 9104, 9239, 9354, 9452, 9536,
      9607, 9667, 9719, 9762, 9799, 9830, 9857, 9879, 9898, 9914, 9927,
      9938, 9948, 9956, 9963, 9969, 9974, 9978, 9981, 9984, 9987, 9989,
      9990, 9992, 9993, 9994, 9995, 9996, 9997, 9997, 9998, 9998, 9998,
      9999, 9999, 9999, 9999, 9999>>

drawBell(d) == Interp(BellTable, Abs(d))
favorBias(d) == IF d >= 0 THEN Interp(TanhTable, d) ELSE 0 - Interp(TanhTable, 0 - d)

\* Draw probability before the clamp, from the value d of diff.
drawModel(in, d) ==
    IF IsNaN(d) THEN NotNum
    ELSE LET base == Max((5 * SCALE) \div 100, drawBell(d))
         IN IF Present(in.odds)
            THEN LET drawImplied ==
                         ImpliedShare(oddsToProb(Val(in.odds).draw), totalProb(Val(in.odds)))
                 IN IF IsNaN(drawImplied) THEN NotNum
                    ELSE (base * 4 + drawImplied * 6) \div 10
            ELSE (base * 8 + ((26 * SCALE) \div 100) * 2) \div 10

contextDrawBoost(in) ==
    IF Present(in.matchContext)
    THEN LET c == Val(in.matchContext)
         IN (IF c.homeStakes = "relegation" /\ c.awayStakes = "relegation" THEN (5 * SCALE) \div 100
             ELSE IF c.homeStakes = "title" /\ c.awayStakes = "title" THEN (2 * SCALE) \div 100
             ELSE 0)
            + (IF c.isDerby THEN (3 * SCALE) \div 100 ELSE 0)
    ELSE 0

refereeDrawBoost(in) ==
    IF RefereeUsed(in) /\ severityScore(Val(in.referee)) > (6 * SCALE) \div 10
    THEN SCALE \div 100
    ELSE 0

drawScoreRaw(in, d) ==
    IF IsNaN(drawModel(in, d)) THEN NotNum
    ELSE drawModel(in, d) + contextDrawBoost(in) + refereeDrawBoost(in)

maxClamp(in) == IF oddsAvailable(in) THEN (85 * SCALE) \div 100 ELSE (80 * SCALE) \div 100

Clamp(lo, hi, x) == IF IsNaN(x) THEN NotNum ELSE Max(lo, Min(hi, x))

\* The three scores after the tanh split and the safety clamp.  diff and
\* drawScore are each computed once, as in the code, and then read.
Clamped(in) ==
    LET Split[dv \in Int, d \in Int] ==
            LET nan == IsNaN(d) \/ IsNaN(dv)
                remaining == SCALE - d
                bias == (favorBias(dv) * 44) \div 100
                homeScore == IF nan THEN NotNum ELSE (remaining * (Half + bias)) \div SCALE
                awayScore == IF nan THEN NotNum ELSE (remaining * (Half - bias)) \div SCALE
            IN [h |-> Clamp((3 * SCALE) \div 100, maxClamp(in), homeScore),
                d |-> Clamp((5 * SCALE) \div 100, (55 * SCALE) \div 100, d),
                a |-> Clamp((3 * SCALE) \div 100, maxClamp(in), awayScore)]
        AtDiff[dv \in Int] == Split[dv, drawScoreRaw(in, dv)]
    IN AtDiff[diff(in)]

\* Mutant: the safety net never triggers.
NaNSafetyNetOff(c) == FALSE

\* "Final NaN safety net": the renormalised scores are NaN as soon as one of
\* the clamped scores is (the sum is NaN).
NaNSafetyNet(c) == IsNaN(c.h) \/ IsNaN(c.d) \/ IsNaN(c.a)

\* Mutant: each percentage rounded on its own (Math.round).
RoundEach(c) ==
    LET sum == c.h + c.d + c.a
        R(x) == (200 * x + sum) \div (2 * sum)
    IN [homeScore |-> R(c.h), drawScore |-> R(c.d), awayScore |-> R(c.a)]

\* Largest remainder on the renormalised scores x / sum, exactly:
\* raw = 100 x / sum, floor = (100 x) div sum, remainder = (100 x) mod sum.
\* remainders.sort is stable, so equal remainders keep the order h, d, a.
LargestRemainder(c) ==
    LET sum == c.h + c.d + c.a
        keys == <<"h", "d", "a">>
        Raw(k) == 100 * c[k]
        Floor(k) == Raw(k) \div sum
        Rem(k) == Raw(k) % sum
        deficit == 100 - (Floor("h") + Floor("d") + Floor("a"))
        Rank(i) == Cardinality({j \in 1..3 :
                        \/ Rem(keys[j]) > Rem(keys[i])
                        \/ (Rem(keys[j]) = Rem(keys[i]) /\ j < i)})
        Out(i) == Floor(keys[i]) + (IF Rank(i) < deficit THEN 1 ELSE 0)
    IN [homeScore |-> Out(1), drawScore |-> Out(2), awayScore |-> Out(3)]

\* The factor list, in the order of the factors.push calls, with the weight
\* each entry reports (hundredths).
FactorList ==
    <<[label |-> "Rating ELO", factor |-> "elo", weight |-> 7],
      [label |-> "xG recent (5 matchs)", factor |-> "xG", weight |-> 12],
      [label |-> "Forme recente (5 matchs)", factor |-> "form", weight |-> 8],
      [label |-> "Bilan dom/ext", factor |-> "venue", weight |-> 10],
      [label |-> "Tendance xG", factor |-> "xGTrend", weight |-> 5],
      [label |-> "Joueurs absents", factor |-> "injuries", weight |-> 8],
      [label |-> "Qualite effectif", factor |-> "squad", weight |-> 4],
      [label |-> "Fatigue calendrier", factor |-> "fatigue", weight |-> 6],
      [label |-> "Confrontations directes", factor |-> "h2h", weight |-> 2],
      [label |-> "Solidite defensive", factor |-> "def", weight |-> 2],
      [label |-> "Difficulte calendrier", factor |-> "sos", weight |-> 5],
      [label |-> "Enjeux du match", factor |-> "context", weight |-> 4],
      [label |-> "Profil arbitre", factor |-> "referee", weight |-> 2],
      [label |-> "Cotes du marche", factor |-> "odds", weight |-> 25]>>

-----------------------------------------------------------------------------
(* calculateStats: the call *)

\* A property of an optional object is read where the object is absent:
\* a TypeError in the engine.
ReadsAbsent(guard, o) == guard /\ ~Present(o)

\* Mutant: the head-to-head figures are read whether or not there is a record.
H2HReadUnguarded(in) == TRUE

\* headToHead!.team1Wins etc. are read when h2hTotal > 0.
H2HRead(in) == h2hTotal(in) > 0
\* fatigue.home / fatigue.away are read inside if (fatigue).
FatigueRead(in) == Present(in.fatigue)
\* matchContext.homeStakes etc. are read inside if (matchContext) and in the
\* label guarded by matchContext ? ... : "N/A".
ContextRead(in) == Present(in.matchContext)
\* referee.avgYellowsPerMatch etc. are read when referee && matchesOfficiated >= 3.
RefereeRead(in) == RefereeUsed(in)
\* odds.homeWin etc. are read inside if (odds).
OddsRead(in) == Present(in.odds)

Throws(in) ==
    \/ ReadsAbsent(Present(in.homeElo), in.homeElo)
    \/ ReadsAbsent(Present(in.awayElo), in.awayElo)
    \/ ReadsAbsent(Present(in.homeXG), in.homeXG)
    \/ ReadsAbsent(Present(in.awayXG), in.awayXG)
    \/ ReadsAbsent(Present(in.homeTactics), in.homeTactics)
    \/ ReadsAbsent(Present(in.awayTactics), in.awayTactics)
    \/ ReadsAbsent(Present(in.homeSOS), in.homeSOS)
    \/ ReadsAbsent(Present(in.awaySOS), in.awaySOS)
    \/ ReadsAbsent(H2HRead(in), in.headToHead)
    \/ ReadsAbsent(FatigueRead(in), in.fatigue)
    \/ ReadsAbsent(ContextRead(in), in.matchContext)
    \/ ReadsAbsent(RefereeRead(in), in.referee)
    \/ ReadsAbsent(OddsRead(in), in.odds)

\* The rounding code on NaN: Math.floor(NaN) is NaN, and NaN++ stays NaN.
Rounded(c) ==
    IF IsNaN(c.h) \/ IsNaN(c.d) \/ IsNaN(c.a)
    THEN [homeScore |-> NotNum, drawScore |-> NotNum, awayScore |-> NotNum]
    ELSE LargestRemainder(c)

\* The value returned (threw = FALSE) or the exception (threw = TRUE);
\* logged: console.error was called.
calculateStats(in) ==
    IF Throws(in)
    THEN [threw |-> TRUE, logged |-> FALSE, homeScore |-> NotNum, drawScore |-> NotNum,
          awayScore |-> NotNum, factors |-> <<>>]
    ELSE LET Finish[c \in [h : Int, d : Int, a : Int]] ==
                 IF NaNSafetyNet(c)
                 THEN [threw |-> FALSE, logged |-> TRUE, homeScore |-> 40, drawScore |-> 25,
                       awayScore |-> 35, factors |-> FactorList]
                 ELSE LET r == Rounded(c)
                      IN [threw |-> FALSE, logged |-> FALSE, homeScore |-> r.homeScore,
                          drawScore |-> r.drawScore, awayScore |-> r.awayScore,
                          factors |-> FactorList]
         IN Finish[Clamped(in)]

-----------------------------------------------------------------------------
(* Inputs of calculateStats *)

MaxLevel == 2       \* team strength levels 0..MaxLevel
MaxInjuries == 2    \* longest injury list

Levels == 0..MaxLevel

\* Player names
MbappeFull == <<75, 121, 108, 105, 97, 110, 32, 77, 98, 97, 112, 112, 233>>     \* "Kylian Mbappe" with e-acute
MbappeShort == <<75, 46, 32, 77, 98, 97, 112, 112, 101>>                     \* "K. Mbappe"
InjuryPool ==
    <<MbappeShort,
      <<79, 117, 115, 109, 97, 110, 101, 32, 68, 101, 109, 98, 101, 108, 101>>,
      <<77, 97, 114, 113, 117, 105, 110, 104, 111, 115>>,
      <<86, 105, 116, 105, 110, 104, 97>>>>

FormOf(l) ==
    [i \in 1..5 |-> IF i <= 2 * l THEN "W" ELSE IF i = 2 * l + 1 THEN "D" ELSE "L"]

RecordOf(l) ==
    LET wins == Min(10, 1 + 4 * l)
        draws == Min(10 - wins, 2)
    IN [played |-> 10, wins |-> wins, draws |-> draws, losses |-> 10 - wins - draws]

StakesOf(l) ==
    IF l = 0 THEN "relegation" ELSE IF l = 1 THEN "midtable"
    ELSE IF l = 2 THEN "europe" ELSE "title"

OddsCases == {"market", "zero", "tinyDraw", "homeOnly"}

OddsOf(h, a, case) ==
    CASE case = "market" ->
            [homeWin |-> Max(105, 150 + 100 * a - 40 * h), draw |-> 330,
             awayWin |-> Max(105, 200 + 120 * h - 50 * a)]
      [] case = "zero" -> [homeWin |-> 0, draw |-> 0, awayWin |-> 0]
      [] case = "tinyDraw" -> [homeWin |-> 180, draw |-> Tiny, awayWin |-> 400]
      [] case = "homeOnly" -> [homeWin |-> 101, draw |-> 0, awayWin |-> 0]

\* Every signal present: home side of strength h, away side of strength a.
Scenario(h, a, oddsCase) ==
    LET Side(l) ==
            [elo |-> Some([elo |-> 1400 + 300 * l]),
             xg |-> Some([xGPerMatch |-> 70 + 60 * l, xGAPerMatch |-> Max(0, 200 - 50 * l),
                          recentXGPerMatch |-> 80 + 60 * l,
                          recentXGAPerMatch |-> Max(0, 190 - 50 * l),
                          xGTrend |-> Min(100, 30 * l - 30)]),
             tactics |-> Some([homeRecord |-> RecordOf(l), awayRecord |-> RecordOf(l),
                               cleanSheets |-> [home |-> Min(10, 1 + 3 * l),
                                                away |-> Min(10, 1 + 3 * l)],
                               goalsAgainstAvg |-> [home |-> Max(20, 200 - 60 * l),
                                                    away |-> Max(20, 200 - 60 * l)]]),
             injuries |-> Some([i \in 1..Max(0, MaxInjuries - l) |-> [player |-> InjuryPool[i]]]),
             criticals |-> Some(IF l = 0
                                THEN <<[player |-> [name |-> MbappeFull, goals |-> 12,
                                                    assists |-> 5, role |-> "both"]]>>
                                ELSE <<>>),
             squad |-> Min(SCALE, 3000 + 3000 * l),
             sos |-> Some([sosScore |-> Min(SCALE, 3000 + 1500 * l)]),
             fatigue |-> [daysSinceLastMatch |-> 1 + 2 * l,
                          matchesLast30Days |-> Max(0, 8 - 2 * l)]]
        H == Side(h)
        A == Side(a)
    IN [homeStanding |-> [form |-> Some(FormOf(h))],
        awayStanding |-> [form |-> Some(FormOf(a))],
        homeInjuries |-> H.injuries, awayInjuries |-> A.injuries,
        homeCriticalAbsences |-> H.criticals, awayCriticalAbsences |-> A.criticals,
        homeSquadQuality |-> H.squad, awaySquadQuality |-> A.squad,
        headToHead |-> Some([team1Wins |-> 1 + h, draws |-> 1, team2Wins |-> 1 + a]),
        homeTactics |-> H.tactics, awayTactics |-> A.tactics,
        fatigue |-> Some([home |-> H.fatigue, away |-> A.fatigue]),
        homeXG |-> H.xg, awayXG |-> A.xg,
        homeElo |-> H.elo, awayElo |-> A.elo,
        odds |-> Some(OddsOf(h, a, oddsCase)),
        homeSOS |-> H.sos, awaySOS |-> A.sos,
        matchContext |-> Some([homeStakes |-> StakesOf(h), awayStakes |-> StakesOf(a),
                               isDerby |-> (h = a)]),
        referee |-> Some([matchesOfficiated |-> 2 + 3 * h,
                          avgYellowsPerMatch |-> 30 + 10 * a,
                          penaltiesAwarded |-> a])]

\* The optional signals of the engine.
Signals == {"injuries", "criticals", "squad", "h2h", "tactics", "fatigue", "xG", "elo",
            "odds", "sos", "context", "referee"}
Sides == {"both", "homeOnly", "awayOnly"}

\* in with the signals of `gone` set to null, and, for the two-sided signals
\* that stay, only the named side kept.
Without(in, gone, side) ==
    LET H(sig, v) == IF sig \in gone \/ side = "awayOnly" THEN Absent ELSE v
        A(sig, v) == IF sig \in gone \/ side = "homeOnly" THEN Absent ELSE v
        J(sig, v) == IF sig \in gone THEN Absent ELSE v
    IN [homeStanding |-> [form |-> IF "form" \in gone THEN Absent ELSE in.homeStanding.form],
        awayStanding |-> [form |-> IF "form" \in gone THEN Absent ELSE in.awayStanding.form],
        homeInjuries |-> H("injuries", in.homeInjuries),
        awayInjuries |-> A("injuries", in.awayInjuries),
        homeCriticalAbsences |-> H("criticals", in.homeCriticalAbsences),
        awayCriticalAbsences |-> A("criticals", in.awayCriticalAbsences),
        homeSquadQuality |-> IF "squad" \in gone \/ side = "awayOnly" THEN NotNum
                             ELSE in.homeSquadQuality,
        awaySquadQuality |-> IF "squad" \in gone \/ side = "homeOnly" THEN NotNum
                             ELSE in.awaySquadQuality,
        headToHead |-> J("h2h", in.headToHead),
        homeTactics |-> H("tactics", in.homeTactics),
        awayTactics |-> A("tactics", in.awayTactics),
        fatigue |-> J("fatigue", in.fatigue),
        homeXG |-> H("xG", in.homeXG), awayXG |-> A("xG", in.awayXG),
        homeElo |-> H("elo", in.homeElo), awayElo |-> A("elo", in.awayElo),
        odds |-> J("odds", in.odds),
        homeSOS |-> H("sos", in.homeSOS), awaySOS |-> A("sos", in.awaySOS),
        matchContext |-> J("context", in.matchContext),
        referee |-> J("referee", in.referee)]

\* A few presence patterns for the scenarios that vary the values.
BasicMasks == {{}, {"odds"}, {"odds", "tactics", "injuries", "criticals"},
               Signals \cup {"form"}}

Inputs ==
    {Without(Scenario(MaxLevel, 0, "market"), gone, side) : gone \in SUBSET Signals, side \in Sides}
    \cup {Without(Scenario(h, a, c), gone, "both") :
             h \in Levels, a \in Levels, c \in OddsCases, gone \in BasicMasks}

NoResult ==
    [threw |-> FALSE, logged |-> FALSE, homeScore |-> 0, drawScore |-> 0, awayScore |-> 0,
     factors |-> <<>>]

-----------------------------------------------------------------------------
(* Entity resolver: names *)

\* "Manchester United"
ManchesterUnited ==
    <<77, 97, 110, 99, 104, 101, 115, 116, 101, 114, 32, 85, 110, 105, 116, 101, 100>>
\* "Manchester City"
ManchesterCity ==
    <<77, 97, 110, 99, 104, 101, 115, 116, 101, 114, 32, 67, 105, 116, 121>>
Inter == <<73, 110, 116, 101, 114>>    \* "Inter"
ACMilan == <<65, 67, 32, 77, 105, 108, 97, 110>>    \* "AC Milan"
\* "FC Bayern M{u-umlaut}nchen"
FCBayernMunchen ==
    <<70, 67, 32, 66, 97, 121, 101, 114, 110, 32, 77, 252, 110, 99, 104, 101, 110>>
BayernMunich == <<66, 97, 121, 101, 114, 110, 32, 77, 117, 110, 105, 99, 104>>    \* "Bayern Munich"
\* "Saint-{E-acute}tienne"
SaintEtienneAccent ==
    <<83, 97, 105, 110, 116, 45, 201, 116, 105, 101, 110, 110, 101>>
\* "Saint Etienne"
SaintEtienne ==
    <<83, 97, 105, 110, 116, 32, 69, 116, 105, 101, 110, 110, 101>>
Bayern == <<66, 97, 121, 101, 114, 110>>    \* "Bayern"
\* "Bayer Leverkusen"
BayerLeverkusen ==
    <<66, 97, 121, 101, 114, 32, 76, 101, 118, 101, 114, 107, 117, 115, 101, 110>>
Milan == <<77, 105, 108, 97, 110>>    \* "Milan"
ManUnited == <<77, 97, 110, 32, 85, 110, 105, 116, 101, 100>>    \* "Man United"
ManCity == <<77, 97, 110, 32, 67, 105, 116, 121>>    \* "Man City"
Chester == <<67, 104, 101, 115, 116, 101, 114>>    \* "Chester"
Manchester == <<77, 97, 110, 99, 104, 101, 115, 116, 101, 114>>    \* "Manchester"
InterMilan == <<73, 110, 116, 101, 114, 32, 77, 105, 108, 97, 110>>    \* "Inter Milan"

\* Lower-cased keys and targets of the alias tables.
\* "fc bayern m{u-umlaut}nchen"
fcbayernmunchen_lc ==
    <<102, 99, 32, 98, 97, 121, 101, 114, 110, 32, 109, 252, 110, 99, 104, 101, 110>>
\* "bayern m{u-umlaut}nchen"
bayernmunchen_lc ==
    <<98, 97, 121, 101, 114, 110, 32, 109, 252, 110, 99, 104, 101, 110>>
\* "bayern munich"
bayernmunich_lc ==
    <<98, 97, 121, 101, 114, 110, 32, 109, 117, 110, 105, 99, 104>>
bayern_lc == <<98, 97, 121, 101, 114, 110>>    \* "bayern"
\* "bayer 04 leverkusen"
bayer04leverkusen_lc ==
    <<98, 97, 121, 101, 114, 32, 48, 52, 32, 108, 101, 118, 101, 114, 107, 117, 115, 101, 110>>
\* "bayer leverkusen"
bayerleverkusen_lc ==
    <<98, 97, 121, 101, 114, 32, 108, 101, 118, 101, 114, 107, 117, 115, 101, 110>>
leverkusen_lc == <<108, 101, 118, 101, 114, 107, 117, 115, 101, 110>>    \* "leverkusen"
acmilan_lc == <<97, 99, 32, 109, 105, 108, 97, 110>>    \* "ac milan"
milan_lc == <<109, 105, 108, 97, 110>>    \* "milan"
intermilan_lc == <<105, 110, 116, 101, 114, 32, 109, 105, 108, 97, 110>>    \* "inter milan"
inter_lc == <<105, 110, 116, 101, 114>>    \* "inter"
\* "manchester united fc"
manchesterunitedfc_lc ==
    <<109, 97, 110, 99, 104, 101, 115, 116, 101, 114, 32, 117, 110, 105, 116, 101, 100, 32, 102, 99>>
\* "manchester united"
manchesterunited_lc ==
    <<109, 97, 110, 99, 104, 101, 115, 116, 101, 114, 32, 117, 110, 105, 116, 101, 100>>
\* "manchester city fc"
manchestercityfc_lc ==
    <<109, 97, 110, 99, 104, 101, 115, 116, 101, 114, 32, 99, 105, 116, 121, 32, 102, 99>>
\* "manchester city"
manchestercity_lc ==
    <<109, 97, 110, 99, 104, 101, 115, 116, 101, 114, 32, 99, 105, 116, 121>>
manunited_lc == <<109, 97, 110, 32, 117, 110, 105, 116, 101, 100>>    \* "man united"
mancity_lc == <<109, 97, 110, 32, 99, 105, 116, 121>>    \* "man city"
\* "as saint-{e-acute}tienne"
assaintetienne_lc ==
    <<97, 115, 32, 115, 97, 105, 110, 116, 45, 233, 116, 105, 101, 110, 110, 101>>
\* "saint-etienne"
saintetienne_lc ==
    <<115, 97, 105, 110, 116, 45, 101, 116, 105, 101, 110, 110, 101>>

\* NOISE_WORDS: fc, rc, sc, ac, cf, de, du, le, la, les, of, the, club, racing, sporting, olympique, stade, association, aj, as, og, ogc, us, sco, osc
NOISE_WORDS ==
    {<<102, 99>>,
     <<114, 99>>,
     <<115, 99>>,
     <<97, 99>>,
     <<99, 102>>,
     <<100, 101>>,
     <<100, 117>>,
     <<108, 101>>,
     <<108, 97>>,
     <<108, 101, 115>>,
     <<111, 102>>,
     <<116, 104, 101>>,
     <<99, 108, 117, 98>>,
     <<114, 97, 99, 105, 110, 103>>,
     <<115, 112, 111, 114, 116, 105, 110, 103>>,
     <<111, 108, 121, 109, 112, 105, 113, 117, 101>>,
     <<115, 116, 97, 100, 101>>,
     <<97, 115, 115, 111, 99, 105, 97, 116, 105, 111, 110>>,
     <<97, 106>>,
     <<97, 115>>,
     <<111, 103>>,
     <<111, 103, 99>>,
     <<117, 115>>,
     <<115, 99, 111>>,
     <<111, 115, 99>>}

\* GENERIC_TEAM_WORDS: united, city, real, athletic, atletico, inter, milan
GENERIC_TEAM_WORDS ==
    {<<117, 110, 105, 116, 101, 100>>,
     <<99, 105, 116, 121>>,
     <<114, 101, 97, 108>>,
     <<97, 116, 104, 108, 101, 116, 105, 99>>,
     <<97, 116, 108, 101, 116, 105, 99, 111>>,
     <<105, 110, 116, 101, 114>>,
     <<109, 105, 108, 97, 110>>}

\* The words findTeamElo leaves out: fc, sc, cf, afc
EloSkipWords == {<<102, 99>>, <<115, 99>>, <<99, 102>>, <<97, 102, 99>>}

\* UNDERSTAT_ALIASES (lower-cased football-data.org name -> Understat name),
\* the entries for the clubs of the name pool.
UNDERSTAT_ALIASES ==
    {<<fcbayernmunchen_lc, bayernmunich_lc>>,
     <<bayernmunchen_lc, bayernmunich_lc>>,
     <<bayer04leverkusen_lc, bayerleverkusen_lc>>,
     <<assaintetienne_lc, saintetienne_lc>>,
     <<acmilan_lc, milan_lc>>,
     <<intermilan_lc, inter_lc>>,
     <<manchesterunitedfc_lc, manchesterunited_lc>>,
     <<manchestercityfc_lc, manchestercity_lc>>}

\* ALIASES of findTeamElo (football-data.org name -> ClubElo name), the
\* entries for the clubs of the name pool.
ELO_ALIASES ==
    {<<manchesterunited_lc, manunited_lc>>,
     <<manchestercity_lc, mancity_lc>>,
     <<bayerleverkusen_lc, leverkusen_lc>>,
     <<bayernmunich_lc, bayern_lc>>,
     <<bayernmunchen_lc, bayern_lc>>,
     <<fcbayernmunchen_lc, bayern_lc>>,
     <<acmilan_lc, milan_lc>>,
     <<intermilan_lc, inter_lc>>}

\* aliases[key], Absent when the key is not in the table.
Lookup(aliases, key) ==
    IF \E p \in aliases : p[1] = key
    THEN Some((CHOOSE p \in aliases : p[1] = key)[2])
    ELSE Absent

-----------------------------------------------------------------------------
(* Entity resolver: normalisers and matchers *)

\* normalizeTeamName of understat-api.ts (the one findTeamXG and findTeamElo
\* import): NFD, strip combining marks, lower-case, keep [a-z0-9].
normalizeTeamName(name) == Keep(toLowerCase(Keep(NFD(name), IsNotMark)), IsLowerAlnum)

\* normalizeTeamName of injuries-api.ts (the one teamsMatch imports):
\* lower-case, keep [a-z0-9].
normalizeTeamNameAscii(name) == Keep(toLowerCase(name), IsLowerAlnum)

getSignificantWords(name) ==
    LET ws == splitRuns(Keep(toLowerCase(name), IsLowerAlnumOrSpace))
        Significant(w) == Len(w) >= 2 /\ w \notin NOISE_WORDS
    IN SelectSeq(ws, Significant)

teamsMatch(a, b) ==
    LET normA == normalizeTeamNameAscii(a)
        normB == normalizeTeamNameAscii(b)
        shorter == IF Len(normA) <= Len(normB) THEN normA ELSE normB
        longer == IF Len(normA) > Len(normB) THEN normA ELSE normB
        wordsA == getSignificantWords(a)
        wordsB == getSignificantWords(b)
    IN \/ /\ Len(shorter) >= 3
          /\ includes(longer, shorter)
          /\ 2 * Len(shorter) > Len(longer)
       \/ \E i \in 1..Len(wordsA) :
             /\ Len(wordsA[i]) >= 4
             /\ wordsA[i] \notin GENERIC_TEAM_WORDS
             /\ \E j \in 1..Len(wordsB) : wordsA[i] = wordsB[j]

\* The table getLeagueXG builds from the Understat teams: one entry per key
\* normalizeTeamName(title), in the order of first insertion, a later team
\* with the same key replacing the value.
getLeagueXG(titles) ==
    LET keyOf(i) == normalizeTeamName(titles[i])
        firsts == {i \in 1..Len(titles) : \A j \in 1..(i - 1) : keyOf(j) # keyOf(i)}
        Nth(k) == CHOOSE i \in firsts : Cardinality({j \in firsts : j < i}) = k - 1
        lastOf(i) == CHOOSE j \in 1..Len(titles) :
                        keyOf(j) = keyOf(i) /\ \A m \in (j + 1)..Len(titles) : keyOf(m) # keyOf(i)
    IN [k \in 1..Cardinality(firsts) |-> [key |-> keyOf(Nth(k)), team |-> titles[lastOf(Nth(k))]]]

\* allXG[key]: the entry under a key, Absent when there is none.
Entry(allXG, key) ==
    IF \E i \in 1..Len(allXG) : allXG[i].key = key
    THEN Some(allXG[CHOOSE i \in 1..Len(allXG) : allXG[i].key = key])
    ELSE Absent

\* First entry, in enumeration order, that satisfies Test; Absent when none.
FirstThat(entries, Test(_)) ==
    IF \E i \in 1..Len(entries) : Test(entries[i])
    THEN Some(entries[CHOOSE i \in 1..Len(entries) :
                          Test(entries[i]) /\ \A j \in 1..(i - 1) : ~Test(entries[j])])
    ELSE Absent

\* The loop "if (matchLen > bestLen) { bestMatch = ...; bestLen = matchLen }":
\* the first entry of greatest matchLen among those that qualify.
BestPartial(entries, Qualifies(_), MatchLen(_)) ==
    LET IsBest(e) ==
            /\ Qualifies(e) /\ MatchLen(e) > 0
            /\ \A j \in 1..Len(entries) : Qualifies(entries[j]) => MatchLen(entries[j]) <= MatchLen(e)
    IN FirstThat(entries, IsBest)

\* Returns Some(title of the entry found) or Absent (null).
findTeamXG(allXG, teamName) ==
    LET normalized == normalizeTeamName(teamName)
        lowered == toLowerCase(teamName)
        exact == Entry(allXG, lowered)
        alias == Lookup(UNDERSTAT_ALIASES, lowered)
        viaAlias == IF Present(alias) THEN Entry(allXG, Val(alias)) ELSE Absent
        NfdEqual(e) == normalizeTeamName(e.key) = normalized
        Partial(e) == includes(e.key, lowered) \/ includes(lowered, e.key)
        MatchLen(e) == Min(Len(e.key), Len(lowered))
        LongWord(w) == Len(w) > 3
        words == SelectSeq(splitRuns(lowered), LongWord)
        AllWords(e) == Len(words) > 0 /\ \A i \in 1..Len(words) : includes(e.key, words[i])
        Title(o) == Some(Val(o).team)
    IN IF Present(exact) THEN Title(exact)
       ELSE IF Present(viaAlias) THEN Title(viaAlias)
       ELSE IF Present(FirstThat(allXG, NfdEqual)) THEN Title(FirstThat(allXG, NfdEqual))
       ELSE IF Present(BestPartial(allXG, Partial, MatchLen))
            THEN Title(BestPartial(allXG, Partial, MatchLen))
       ELSE IF Present(FirstThat(allXG, AllWords)) THEN Title(FirstThat(allXG, AllWords))
       ELSE Absent

\* One pass of the "best partial match" loop of findTeamElo over the entries
\* from index i on; best is Absent or Some(entry), bestLen its match length.
RECURSIVE EloLoop(_, _, _, _, _, _)
EloLoop(allElo, i, lowered, words, best, bestLen) ==
    IF i > Len(allElo) THEN best
    ELSE LET entry == allElo[i]
             eloLower == toLowerCase(entry.team)
             contains == includes(eloLower, lowered) \/ includes(lowered, eloLower)
             matchLen == Min(Len(eloLower), Len(lowered))
             better == contains /\ matchLen > bestLen
             best1 == IF better THEN Some(entry) ELSE best
             len1 == IF better THEN matchLen ELSE bestLen
             byWords == /\ ~Present(best1)
                        /\ Len(words) > 0
                        /\ \A k \in 1..Len(words) : includes(eloLower, words[k])
             best2 == IF byWords THEN Some(entry) ELSE best1
             len2 == IF byWords THEN Len(joinAll(words)) ELSE len1
         IN EloLoop(allElo, i + 1, lowered, words, best2, len2)

\* Returns Some(team of the entry found) or Absent (null).
findTeamElo(allElo, teamName) ==
    LET lowered == toLowerCase(teamName)
        normalized == normalizeTeamName(teamName)
        Direct(e) == toLowerCase(e.team) = lowered
        alias == Lookup(ELO_ALIASES, lowered)
        IsAlias(e) == Present(alias) /\ toLowerCase(e.team) = Val(alias)
        NfdEqual(e) == normalizeTeamName(e.team) = normalized
        Counted(w) == Len(w) > 2 /\ w \notin EloSkipWords
        words == SelectSeq(splitRuns(lowered), Counted)
        Title(o) == Some(Val(o).team)
    IN IF Present(FirstThat(allElo, Direct)) THEN Title(FirstThat(allElo, Direct))
       ELSE IF Present(FirstThat(allElo, IsAlias)) THEN Title(FirstThat(allElo, IsAlias))
       ELSE IF Present(FirstThat(allElo, NfdEqual)) THEN Title(FirstThat(allElo, NfdEqual))
       ELSE LET best == EloLoop(allElo, 1, lowered, words, Absent, 0)
            IN IF Present(best) THEN Title(best) ELSE Absent

\* The table getInjuries groups the injury records into: one entry per team key
\* normalizeTeamName(entry.team.name), in the order of first insertion (the
\* teams given have distinct keys).
getInjuries(titles) ==
    [i \in 1..Len(titles) |-> [key |-> normalizeTeamNameAscii(titles[i]), team |-> titles[i]]]

\* Returns Some(team whose injury list is returned) or Absent (the empty list).
findTeamInjuries(allInjuries, teamName) ==
    LET normalized == normalizeTeamNameAscii(teamName)
        exact == Entry(allInjuries, normalized)
        Partial(e) == includes(e.key, normalized) \/ includes(normalized, e.key)
        Title(o) == Some(Val(o).team)
    IN IF Present(exact) THEN Title(exact)
       ELSE IF Present(FirstThat(allInjuries, Partial)) THEN Title(FirstThat(allInjuries, Partial))
       ELSE Absent

\* The rating list getAllEloRatings parses: one entry per CSV line.
EloList(titles) == [i \in 1..Len(titles) |-> [team |-> titles[i]]]

-----------------------------------------------------------------------------
(* The resolver as a state machine: one operation on one pair of names and
   one provider table *)

MaxTable == 2    \* most teams in a provider table

Names == {ManchesterUnited, ManchesterCity, Inter, ACMilan, FCBayernMunchen, BayernMunich,
          SaintEtienneAccent, SaintEtienne, Chester, Manchester, InterMilan}

UnderstatTitles == {BayernMunich, BayerLeverkusen, ManchesterUnited, ManchesterCity, Inter}
InjuryTitles == {ManchesterUnited, ManchesterCity, Inter}
EloTitles == {Bayern, BayerLeverkusen, ManUnited, Milan}

\* The sequences of at most MaxTable distinct titles.
TablesOf(titles) ==
    UNION {{t \in [1..n -> titles] : \A i, j \in 1..n : i # j => t[i] # t[j]} : n \in 0..MaxTable}

IsTableOf(t, titles) == \A i \in 1..Len(t) : t[i] \in titles

NoInput == Absent

StatsIdle ==
    /\ input = NoInput
    /\ result = NoResult
    /\ pc = "idle"

InitNames ==
    /\ nameA \in Names
    /\ nameB \in Names
    /\ table \in TablesOf(UnderstatTitles) \cup TablesOf(EloTitles)
    /\ answer = Absent
    /\ op = "none"
    /\ StatsIdle

\* teamsMatch(nameA, nameB)
TeamsMatch ==
    /\ op = "none"
    /\ answer' = Some(teamsMatch(nameA, nameB))
    /\ op' = "teamsMatch"
    /\ UNCHANGED <<nameA, nameB, table, input, result, pc>>

\* findTeamXG(await getLeagueXG(league), nameA), the league's Understat teams
\* being those of table
FindTeamXG ==
    /\ op = "none"
    /\ IsTableOf(table, UnderstatTitles)
    /\ answer' = findTeamXG(getLeagueXG(table), nameA)
    /\ op' = "findTeamXG"
    /\ UNCHANGED <<nameA, nameB, table, input, result, pc>>

\* findTeamElo(await getAllEloRatings(), nameA), the ClubElo clubs being those
\* of table
FindTeamElo ==
    /\ op = "none"
    /\ IsTableOf(table, EloTitles)
    /\ answer' = findTeamElo(EloList(table), nameA)
    /\ op' = "findTeamElo"
    /\ UNCHANGED <<nameA, nameB, table, input, result, pc>>

\* findTeamInjuries(await getInjuries(league), nameA), the teams with injury
\* records being those of table
FindTeamInjuries ==
    /\ op = "none"
    /\ IsTableOf(table, InjuryTitles)
    /\ answer' = findTeamInjuries(getInjuries(table), nameA)
    /\ op' = "findTeamInjuries"
    /\ UNCHANGED <<nameA, nameB, table, input, result, pc>>

\* normalizeTeamName of understat-api.ts on each of the two names
NormalizeTeamName ==
    /\ op = "none"
    /\ answer' = Some(<<normalizeTeamName(nameA), normalizeTeamName(nameB)>>)
    /\ op' = "normalizeTeamName"
    /\ UNCHANGED <<nameA, nameB, table, input, result, pc>>

\* normalizeTeamName of injuries-api.ts on each of the two names
NormalizeTeamNameAscii ==
    /\ op = "none"
    /\ answer' = Some(<<normalizeTeamNameAscii(nameA), normalizeTeamNameAscii(nameB)>>)
    /\ op' = "normalizeTeamNameAscii"
    /\ UNCHANGED <<nameA, nameB, table, input, result, pc>>

NextNames ==
    \/ TeamsMatch
    \/ FindTeamXG
    \/ FindTeamElo
    \/ FindTeamInjuries
    \/ NormalizeTeamName
    \/ NormalizeTeamNameAscii

SpecNames == InitNames /\ [][NextNames]_vars

\* Whether a title is in the table.
Holds(t, title) == \E i \in 1..Len(t) : t[i] = title

\* C9 (as claimed): teamsMatch never matches two distinct clubs that share
\* only a city token or only generic tokens: Manchester United / Manchester
\* City and Inter / AC Milan do not match, in either argument order.
C9_DistinctClubsDoNotMatch ==
    (/\ op = "teamsMatch"
     /\ \/ {nameA, nameB} = {ManchesterUnited, ManchesterCity}
        \/ {nameA, nameB} = {Inter, ACMilan})
        => answer = Some(FALSE)

\* C10 (as claimed): "FC Bayern Munchen" (u-umlaut) and "Bayern Munich"
\* resolve to the same entry: findTeamXG returns the Understat team "Bayern
\* Munich" for both names when getLeagueXG's table holds it, and findTeamElo
\* returns the club "Bayern" for both names when the rating list holds it.
C10_BayernResolves ==
    nameA \in {FCBayernMunchen, BayernMunich} =>
        /\ (op = "findTeamXG" /\ Holds(table, BayernMunich)) => answer = Some(BayernMunich)
        /\ (op = "findTeamElo" /\ Holds(table, Bayern)) => answer = Some(Bayern)

\* The letters and digits of a name, diacritics and case set aside: what is
\* left of it when diacritics, letter case, spaces and punctuation are ignored.
BaseLetter(c) ==
    CASE c \in {201, 232, 233} -> 101
      [] c = 225 -> 97
      [] c \in {243, 246} -> 111
      [] c \in {220, 252} -> 117
      [] c >= 65 /\ c <= 90 -> c + 32
      [] OTHER -> c
Skeleton(s) == SelectSeq([i \in 1..Len(s) |-> BaseLetter(s[i])], IsLowerAlnum)

\* C11 (as claimed): every team-name normalizer maps two names that differ
\* only by diacritics, letter case, spaces and punctuation to the same key.
C11_NormalizersAgree ==
    (/\ op \in {"normalizeTeamName", "normalizeTeamNameAscii"}
     /\ Skeleton(nameA) = Skeleton(nameB))
        => Val(answer)[1] = Val(answer)[2]

\* The containment test of teamsMatch on the two normalized names.
Contained(a, b) ==
    LET na == normalizeTeamNameAscii(a)
        nb == normalizeTeamNameAscii(b)
    IN \/ includes(na, nb) /\ 2 * Len(nb) > Len(na)
       \/ includes(nb, na) /\ 2 * Len(na) > Len(nb)

\* C12 (as claimed): teamsMatch accepts a pair by containment only when one
\* normalized name contains the other and the shorter is more than half the
\* longer; it rejects ("Chester", "Manchester") and accepts ("Inter",
\* "Inter Milan").
C12_ContainmentStep ==
    op = "teamsMatch" =>
        /\ (Contained(nameA, nameB) /\ Len(Skeleton(nameA)) >= 3 /\ Len(Skeleton(nameB)) >= 3)
              => answer = Some(TRUE)
        /\ {nameA, nameB} = {Chester, Manchester} => answer = Some(FALSE)
        /\ {nameA, nameB} = {Inter, InterMilan} => answer = Some(TRUE)

\* The table with its entries enumerated in another order.
Orders(t) == {p \in [1..Len(t) -> 1..Len(t)] : \A i, j \in 1..Len(t) : i # j => p[i] # p[j]}
Reordered(t, p) == [i \in 1..Len(t) |-> t[p[i]]]

\* C13 (as claimed): findTeamXG, findTeamElo and findTeamInjuries return the
\* same entry whatever the order in which the entries of the table are
\* enumerated.
C13_OrderIndependent ==
    \A p \in Orders(table) :
        /\ op = "findTeamXG" => findTeamXG(getLeagueXG(Reordered(table, p)), nameA) = answer
        /\ op = "findTeamElo" => findTeamElo(EloList(Reordered(table, p)), nameA) = answer
        /\ op = "findTeamInjuries"
              => findTeamInjuries(getInjuries(Reordered(table, p)), nameA) = answer

-----------------------------------------------------------------------------
(* The scoring engine as a state machine: one call on one input *)

NamesIdle ==
    /\ nameA = <<>>
    /\ nameB = <<>>
    /\ table = <<>>
    /\ answer = Absent
    /\ op = "idle"

InitStats ==
    /\ input \in Inputs
    /\ result = NoResult
    /\ pc = "ready"
    /\ NamesIdle

Calculate ==
    /\ pc = "ready"
    /\ result' = calculateStats(input)
    /\ pc' = "done"
    /\ UNCHANGED <<input, nameA, nameB, table, answer, op>>

NextStats == Calculate

SpecStats == InitStats /\ [][NextStats]_vars

-----------------------------------------------------------------------------
(* Properties of calculateStats *)

Returned == pc = "done" /\ ~result.threw

\* The exact renormalised values behind a returned triple.
Norm(in) ==
    LET c == Clamped(in)
        sum == c.h + c.d + c.a
    IN [sum |-> sum,
        floor |-> [h |-> (100 * c.h) \div sum, d |-> (100 * c.d) \div sum,
                   a |-> (100 * c.a) \div sum],
        rem |-> [h |-> (100 * c.h) % sum, d |-> (100 * c.d) % sum, a |-> (100 * c.a) % sum]]

Got(k) == IF k = "h" THEN result.homeScore ELSE IF k = "d" THEN result.drawScore
          ELSE result.awayScore

\* C1: the returned homeScore, drawScore and awayScore are non-negative
\* integers that sum to exactly 100; outside the neutral fallback each is the
\* floor of its renormalised value plus at most one unit, the units going to
\* the components with the largest fractional parts.
C1_SumIs100 ==
    Returned =>
        /\ result.homeScore \in 0..100
        /\ result.drawScore \in 0..100
        /\ result.awayScore \in 0..100
        /\ result.homeScore + result.drawScore + result.awayScore = 100
        /\ ~result.logged =>
              LET n == Norm(input)
              IN /\ \A k \in {"h", "d", "a"} : Got(k) - n.floor[k] \in {0, 1}
                 /\ \A k, j \in {"h", "d", "a"} :
                       (Got(k) - n.floor[k] = 1 /\ Got(j) - n.floor[j] = 0)
                           => n.rem[k] >= n.rem[j]

\* C1 witness: a call in which the floors sum to 98 and two units were handed out.
C1_Witness ==
    /\ Returned
    /\ ~result.logged
    /\ LET n == Norm(input) IN n.floor.h + n.floor.d + n.floor.a = 98

\* C2 (as claimed): no returned percentage lies outside the clamp range of
\* the active mode: home and away within [3, 85] with odds and [3, 80]
\* without, draw within [5, 55].
C2_WithinClampRange ==
    Returned =>
        LET hi == IF oddsAvailable(input) THEN 85 ELSE 80
        IN /\ result.homeScore >= 3 /\ result.homeScore <= hi
           /\ result.awayScore >= 3 /\ result.awayScore <= hi
           /\ result.drawScore >= 5 /\ result.drawScore <= 55

NonOdds == Factors \ {"odds"}

\* C3: the applied weights total 1; with odds they are the 14 baseline
\* weights, odds (0.25) the largest; without odds the odds weight is 0 and
\* every other weight is its baseline divided by 0.75, so the ratio of any
\* two non-odds weights is the same in both modes.
C3_WeightsSumToOne ==
    LET w == AppliedWeights(oddsAvailable(input))
        with == AppliedWeights(TRUE)
        without == AppliedWeights(FALSE)
    IN /\ SumSeq([i \in 1..Len(SumOrder) |-> w.num[SumOrder[i]]]) = w.den
       /\ oddsAvailable(input) =>
             /\ \A f \in Factors : w.num[f] * 100 = baseWeights[f] * w.den
             /\ \A f \in NonOdds : w.num["odds"] > w.num[f]
       /\ ~oddsAvailable(input) =>
             /\ w.num["odds"] = 0
             /\ \A f \in NonOdds : w.num[f] * 75 = baseWeights[f] * w.den
       /\ \A f, g \in NonOdds : with.num[f] * without.num[g] = with.num[g] * without.num[f]

\* C3 witness: a call made without odds.
C3_Witness == Returned /\ ~oddsAvailable(input)

\* Whether the signal behind a factor is absent for one side.
HomeSignalAbsent(f, in) ==
    CASE f = "odds" -> ~Present(in.odds)
      [] f = "xG" -> ~Present(in.homeXG)
      [] f = "venue" -> ~Present(in.homeTactics)
      [] f = "form" -> ~Present(in.homeStanding.form)
      [] f = "elo" -> ~Present(in.homeElo)
      [] f = "injuries" -> ~Present(in.homeInjuries) /\ ~Present(in.homeCriticalAbsences)
      [] f = "xGTrend" -> ~Present(in.homeXG)
      [] f = "sos" -> ~Present(in.homeSOS)
      [] f = "fatigue" -> ~Present(in.fatigue)
      [] f = "squad" -> in.homeSquadQuality = NotNum
      [] f = "h2h" -> ~Present(in.headToHead)
      [] f = "def" -> ~Present(in.homeTactics)
      [] f = "context" -> ~Present(in.matchContext)
      [] f = "referee" -> ~Present(in.referee)
AwaySignalAbsent(f, in) ==
    CASE f = "odds" -> ~Present(in.odds)
      [] f = "xG" -> ~Present(in.awayXG)
      [] f = "venue" -> ~Present(in.awayTactics)
      [] f = "form" -> ~Present(in.awayStanding.form)
      [] f = "elo" -> ~Present(in.awayElo)
      [] f = "injuries" -> ~Present(in.awayInjuries) /\ ~Present(in.awayCriticalAbsences)
      [] f = "xGTrend" -> ~Present(in.awayXG)
      [] f = "sos" -> ~Present(in.awaySOS)
      [] f = "fatigue" -> ~Present(in.fatigue)
      [] f = "squad" -> in.awaySquadQuality = NotNum
      [] f = "h2h" -> ~Present(in.headToHead)
      [] f = "def" -> ~Present(in.awayTactics)
      [] f = "context" -> ~Present(in.matchContext)
      [] f = "referee" -> ~Present(in.referee)

AllAbsent(in) ==
    \A f \in Factors : HomeSignalAbsent(f, in) /\ AwaySignalAbsent(f, in)

C5_NeverThrows ==
    pc = "done" =>
        /\ ~result.threw
        /\ Len(result.factors) = 14
        /\ {result.factors[i].factor : i \in 1..Len(result.factors)} = Factors

\* C5 witness: a completed call in which only the home side's signals and no
\* joint signal but the head-to-head record were given.
C5_Witness ==
    /\ pc = "done"
    /\ Present(input.homeElo) /\ ~Present(input.awayElo)
    /\ Present(input.headToHead) /\ ~Present(input.odds) /\ ~Present(input.referee)

\* An implied-probability computation of the call yields a non-finite value.
NonFiniteIntermediate(in) ==
    Present(in.odds) /\ totalProb(Val(in.odds)) \in {0, Infinity}

\* C6: when an intermediate probability is not finite the call logs and
\* returns exactly 40/25/35 with the factor list; no NaN ever appears in the
\* returned percentages and nothing is thrown.
C6_NaNFallback ==
    pc = "done" =>
        /\ ~result.threw
        /\ ~IsNaN(result.homeScore) /\ ~IsNaN(result.drawScore) /\ ~IsNaN(result.awayScore)
        /\ NonFiniteIntermediate(input) =>
              /\ result.logged
              /\ result.homeScore = 40 /\ result.drawScore = 25 /\ result.awayScore = 35
              /\ result.factors = FactorList

\* C6 witness: odds supplied whose implied-probability total is 0.
C6_Witness ==
    /\ pc = "done"
    /\ Present(input.odds)
    /\ totalProb(Val(input.odds)) = 0

\* C7 (as claimed): the weight each entry of the factor list reports equals
\* the weight applied to that factor in the composite sum of the same call.
C7_ReportedIsApplied ==
    Returned =>
        LET w == AppliedWeights(oddsAvailable(input))
        IN \A i \in 1..Len(result.factors) :
              result.factors[i].weight * w.den = w.num[result.factors[i].factor] * 100

-----------------------------------------------------------------------------
(* identifyCriticalAbsences of players-api.ts *)

DavidSilva == <<68, 97, 118, 105, 100, 32, 83, 105, 108, 118, 97>>    \* "David Silva"
BernardoSilva == <<66, 101, 114, 110, 97, 114, 100, 111, 32, 83, 105, 108, 118, 97>>    \* "Bernardo Silva"
Silva == <<83, 105, 108, 118, 97>>    \* "Silva"
BSilva == <<66, 46, 32, 83, 105, 108, 118, 97>>    \* "B. Silva"

\* The match score of one injury record for one key player: exact 100,
\* containment the length of the shorter name, last name + first initial 1,
\* otherwise 0.
matchScore(injPlayer, playerName) ==
    LET injNorm == nfdLower(injPlayer)
        playerNorm == nfdLower(playerName)
        injParts == splitOn(injNorm, 32)
        playerParts == splitOn(playerNorm, 32)
    IN IF injNorm = playerNorm THEN 100
       ELSE IF includes(injNorm, playerNorm) \/ includes(playerNorm, injNorm)
            THEN Min(Len(injNorm), Len(playerNorm))
       ELSE IF /\ Len(injParts) >= 2
               /\ Len(playerParts) >= 2
               /\ injParts[Len(injParts)] = playerParts[Len(playerParts)]
               /\ SubSeq(injParts[1], 1, 1) = SubSeq(playerParts[1], 1, 1)
            THEN 1
       ELSE 0

\* The loop "if (score > bestScore) { bestScore = score; bestInjury = inj }":
\* the first injury of greatest score, when that score is positive.
bestInjury(player, injuries) ==
    LET Best(i) ==
            /\ matchScore(injuries[i].player, player.name) > 0
            /\ \A j \in 1..Len(injuries) :
                  matchScore(injuries[j].player, player.name)
                      <= matchScore(injuries[i].player, player.name)
            /\ \A j \in 1..(i - 1) :
                  matchScore(injuries[j].player, player.name)
                      < matchScore(injuries[i].player, player.name)
    IN IF \E i \in 1..Len(injuries) : Best(i)
       THEN Some(injuries[CHOOSE i \in 1..Len(injuries) : Best(i)])
       ELSE Absent

impactOf(player) ==
    IF player.goals + player.assists >= 10 \/ player.role = "both" THEN "high" ELSE "medium"

identifyCriticalAbsences(keyPlayers, injuries) ==
    LET Matched(i) == Present(bestInjury(keyPlayers[i], injuries))
        hits == {i \in 1..Len(keyPlayers) : Matched(i)}
        Nth(k) == CHOOSE i \in hits : Cardinality({j \in hits : j < i}) = k - 1
    IN [k \in 1..Cardinality(hits) |->
           [player |-> keyPlayers[Nth(k)],
            injury |-> Val(bestInjury(keyPlayers[Nth(k)], injuries)),
            impact |-> impactOf(keyPlayers[Nth(k)])]]

MaxKeyPlayers == 2    \* longest key-player list

KeyPlayerPool ==
    {[name |-> DavidSilva, goals |-> 4, assists |-> 7, role |-> "both"],
     [name |-> BernardoSilva, goals |-> 3, assists |-> 4, role |-> "assister"],
     [name |-> MbappeFull, goals |-> 12, assists |-> 5, role |-> "scorer"]}

InjuredPool ==
    {[player |-> n] : n \in {Silva, BSilva, DavidSilva, MbappeShort, InjuryPool[3]}}

\* The sequences of at most n distinct members of a pool.
ListsOf(pool, n) ==
    UNION {{t \in [1..m -> pool] : \A i, j \in 1..m : i # j => t[i] # t[j]} : m \in 0..n}

InitAbsences ==
    /\ input \in {[keyPlayers |-> k, injuries |-> j] :
                     k \in ListsOf(KeyPlayerPool, MaxKeyPlayers),
                     j \in ListsOf(InjuredPool, MaxInjuries)}
    /\ result = <<>>
    /\ pc = "ready"
    /\ NamesIdle

IdentifyCriticalAbsences ==
    /\ pc = "ready"
    /\ result' = identifyCriticalAbsences(input.keyPlayers, input.injuries)
    /\ pc' = "done"
    /\ UNCHANGED <<input, nameA, nameB, table, answer, op>>

NextAbsences == IdentifyCriticalAbsences

SpecAbsences == InitAbsences /\ [][NextAbsences]_vars

\* C14 (as claimed): the list holds at most one absence per key player, each
\* built from the first highest-scoring injury record for that player (score
\* above 0), and no injury record is attached to more than one key player.
C14_OneRecordPerPlayer ==
    pc = "done" =>
        /\ \A i, j \in 1..Len(result) : i # j => result[i].player # result[j].player
        /\ \A i \in 1..Len(result) :
              /\ \E k \in 1..Len(input.keyPlayers) : input.keyPlayers[k] = result[i].player
              /\ \E k \in 1..Len(input.injuries) : input.injuries[k] = result[i].injury
              /\ matchScore(result[i].injury.player, result[i].player.name) > 0
              /\ \A k \in 1..Len(input.injuries) :
                    matchScore(input.injuries[k].player, result[i].player.name)
                        <= matchScore(result[i].injury.player, result[i].player.name)
        /\ \A i, j \in 1..Len(result) : i # j => result[i].injury # result[j].injury

-----------------------------------------------------------------------------
(* buildStandings of scripts/backtest.ts *)

MaxTeams == 3    \* team ids 1..MaxTeams

TeamIds == 1..MaxTeams

\* A finished match: [home, away: team ids, hg, ag: full-time goals or NotNum
\* (null), date: utcDate as a day number].
IsFinished(m) == m.hg # NotNum /\ m.ag # NotNum

NewStats == [played |-> 0, won |-> 0, draw |-> 0, lost |-> 0, goalsFor |-> 0,
             goalsAgainst |-> 0, points |-> 0, results |-> <<>>]

\* One side's counters after a match in which it scored gf and conceded ga.
Credit(st, gf, ga) ==
    [played |-> st.played + 1,
     won |-> st.won + (IF gf > ga THEN 1 ELSE 0),
     draw |-> st.draw + (IF gf = ga THEN 1 ELSE 0),
     lost |-> st.lost + (IF gf < ga THEN 1 ELSE 0),
     goalsFor |-> st.goalsFor + gf,
     goalsAgainst |-> st.goalsAgainst + ga,
     points |-> st.points + (IF gf > ga THEN 3 ELSE IF gf = ga THEN 1 ELSE 0),
     results |-> Append(st.results, IF gf > ga THEN "W" ELSE IF gf = ga THEN "D" ELSE "L")]

\* Mutant: every team that has an entry is credited with a played game.
AddMatchCountsAll(stats, m) ==
    [t \in DOMAIN stats \cup {m.home, m.away} |->
        LET st == IF t \in DOMAIN stats THEN stats[t] ELSE NewStats
        IN IF t = m.home THEN Credit(st, m.hg, m.ag)
           ELSE IF t = m.away THEN Credit(st, m.ag, m.hg)
           ELSE [st EXCEPT !.played = @ + 1]]

\* The body of "for (const m of matchesBefore)" on the Map stats, a function
\* from the ids that have an entry to their counters.
AddMatch(stats, m) ==
    IF ~IsFinished(m) THEN stats
    ELSE [t \in DOMAIN stats \cup {m.home, m.away} |->
             IF t = m.home
             THEN Credit(IF t \in DOMAIN stats THEN stats[t] ELSE NewStats, m.hg, m.ag)
             ELSE IF t = m.away
             THEN Credit(IF t \in DOMAIN stats THEN stats[t] ELSE NewStats, m.ag, m.hg)
             ELSE stats[t]]

\* stats after the first k matches, every team of teamMap starting at zero
\* (prev: the Map as the previous iteration left it).
RECURSIVE StatsAfter(_, _, _)
StatsAfter(matchesBefore, teamMap, k) ==
    IF k = 0 THEN [t \in teamMap |-> NewStats]
    ELSE CHOOSE next \in {AddMatch(prev, matchesBefore[k]) :
                              prev \in {StatsAfter(matchesBefore, teamMap, k - 1)}} : TRUE

\* Array.prototype.join(",")
RECURSIVE joinComma(_)
joinComma(rs) ==
    IF Len(rs) <= 1 THEN rs ELSE <<Head(rs), ",">> \o joinComma(Tail(rs))

\* Mutant: the last five results left in chronological order.
formOfChronological(results) ==
    IF results = <<>> THEN Absent
    ELSE Some(joinComma(SubSeq(results, Max(1, Len(results) - 4), Len(results))))

\* results.slice(-5).reverse().join(",") || null
formOf(results) ==
    LET n == Len(results)
        last == SubSeq(results, Max(1, n - 4), n)
        reversed == [i \in 1..Len(last) |-> last[Len(last) + 1 - i]]
    IN IF joinComma(reversed) = <<>> THEN Absent ELSE Some(joinComma(reversed))

\* Mutant: rows compared by team id alone.
SortsBeforeById(a, b) == a.team < b.team

\* The comparator of standings.sort returns a negative number: a sorts before b.
SortsBefore(a, b) ==
    IF b.points # a.points THEN b.points < a.points
    ELSE IF b.goalDifference # a.goalDifference THEN b.goalDifference < a.goalDifference
    ELSE IF b.goalsFor # a.goalsFor THEN b.goalsFor < a.goalsFor
    ELSE a.team < b.team

\* The row pushed for one entry of stats, position still 0.
RowOf(t, s) ==
    [position |-> 0, team |-> t, playedGames |-> s.played, won |-> s.won, draw |-> s.draw,
     lost |-> s.lost, points |-> s.points, goalsFor |-> s.goalsFor,
     goalsAgainst |-> s.goalsAgainst, goalDifference |-> s.goalsFor - s.goalsAgainst,
     form |-> formOf(s.results)]

\* standings.sort and the forEach that numbers the rows: team ids are
\* distinct, so the comparator is a total order and the sorted array is the
\* rows in that order.
SortedRows(rows) ==
    [k \in 1..Cardinality(rows) |->
        [(CHOOSE r \in rows : Cardinality({q \in rows : SortsBefore(q, r)}) = k - 1)
            EXCEPT !.position = k]]

\* The rows pushed for the entries of stats with played > 0.
PushedRows(stats) == {RowOf(t, stats[t]) : t \in {u \in DOMAIN stats : stats[u].played > 0}}

\* teamMap is given as the set of its team ids.
buildStandings(matchesBefore, teamMap) ==
    CHOOSE standings \in
        {SortedRows(rows) :
            rows \in {PushedRows(stats) :
                         stats \in {StatsAfter(matchesBefore, teamMap, Len(matchesBefore))}}} : TRUE

\* form.split(",") of formScore, on the form of a standings row; a piece of
\* one character is that result, any other piece a string that is neither
\* "W" nor "D".
formResults(form) ==
    IF Present(form)
    THEN LET pieces == splitOn(Val(form), ",")
         IN Some([i \in 1..Len(pieces) |-> IF Len(pieces[i]) = 1 THEN pieces[i][1] ELSE ""])
    ELSE Absent

-----------------------------------------------------------------------------
(* The standings reconstructor as a state machine: the table rebuilt from
   each longer prefix of one match log *)

MaxMatches == 6    \* longest match log

\* Full-time scores of a log entry (main keeps the matches that have one).
ScorePool == {<<1, 0>>, <<1, 1>>, <<0, 2>>}

\* Who plays the k-th match: under "star" team 1 meets each other team in
\* turn, home and away alternating; under "round" the teams meet in a ring.
Schedules == {"star", "round"}
Pairing(schedule, k) ==
    IF schedule = "star"
    THEN LET other == 2 + (k % (MaxTeams - 1))
         IN IF k % 2 = 1 THEN <<1, other>> ELSE <<other, 1>>
    ELSE <<1 + (k % MaxTeams), 1 + ((k + 1) % MaxTeams)>>

MatchOf(schedule, k, score) ==
    [home |-> Pairing(schedule, k)[1], away |-> Pairing(schedule, k)[2],
     hg |-> score[1], ag |-> score[2], date |-> k]

Logs ==
    UNION {{[k \in 1..n |-> MatchOf(s, k, sc[k])] : sc \in [1..n -> ScorePool]} :
              s \in Schedules, n \in 0..MaxMatches}

InitStandings ==
    /\ input \in {[matches |-> log, teamMap |-> IF Len(log) % 2 = 0 THEN TeamIds ELSE {}] :
                     log \in Logs}
    /\ result = [i |-> 0, previous |-> <<>>, standings |-> <<>>]
    /\ pc = "replay"
    /\ NamesIdle

\* The table for the next index: buildStandings(validMatches.slice(0, i), teamMap)
Advance ==
    /\ pc = "replay"
    /\ result.i < Len(input.matches)
    /\ result' = [i |-> result.i + 1,
                  previous |-> result.standings,
                  standings |-> buildStandings(SubSeq(input.matches, 1, result.i + 1),
                                               input.teamMap)]
    /\ UNCHANGED <<input, pc, nameA, nameB, table, answer, op>>

NextStandings == Advance

SpecStandings == InitStandings /\ [][NextStandings]_vars

\* The row of a team in a table, Absent when it has none.
RowFor(standings, t) ==
    IF \E k \in 1..Len(standings) : standings[k].team = t
    THEN Some(standings[CHOOSE k \in 1..Len(standings) : standings[k].team = t])
    ELSE Absent

\* C17: the rows are ordered by points descending, then goal difference
\* descending, then goals scored descending, then team id ascending, and the
\* positions are 1..n in that order.
C17_SortedAndNumbered ==
    pc = "replay" =>
        LET st == result.standings
        IN /\ \A k \in 1..Len(st) : st[k].position = k
           /\ \A k, l \in 1..Len(st) :
                 k < l =>
                    \/ st[k].points > st[l].points
                    \/ /\ st[k].points = st[l].points
                       /\ st[k].goalDifference > st[l].goalDifference
                    \/ /\ st[k].points = st[l].points
                       /\ st[k].goalDifference = st[l].goalDifference
                       /\ st[k].goalsFor > st[l].goalsFor
                    \/ /\ st[k].points = st[l].points
                       /\ st[k].goalDifference = st[l].goalDifference
                       /\ st[k].goalsFor = st[l].goalsFor
                       /\ st[k].team < st[l].team

\* C17 witness: a table of three rows in which two teams are level on points,
\* goal difference and goals scored, and the one with the larger id sits above
\* a third team with the smallest id.
C17_Witness ==
    /\ pc = "replay"
    /\ Len(result.standings) >= 3
    /\ \E k \in 1..(Len(result.standings) - 1) :
          /\ result.standings[k].points = result.standings[k + 1].points
          /\ result.standings[k].goalDifference = result.standings[k + 1].goalDifference
          /\ result.standings[k].goalsFor = result.standings[k + 1].goalsFor
    /\ result.standings[Len(result.standings)].team = 1

\* The two teams of the match added by the last step.
LastTeams == {input.matches[result.i].home, input.matches[result.i].away}

\* C18 (as claimed): adding match i to the prefix changes only the rows of
\* the two teams that played it: every other team's row, rank included, is
\* identical in the two tables.
C18_OnlyTwoRowsChange ==
    (pc = "replay" /\ result.i >= 1) =>
        \A t \in TeamIds \ LastTeams :
            RowFor(result.standings, t) = RowFor(result.previous, t)

\* C18 (amended): every other team keeps its row but for the position: it is
\* in the new table exactly when it was in the old one, with the same
\* counters, goals, points and form; its rank may move.
C18_OthersKeepCounters ==
    (pc = "replay" /\ result.i >= 1) =>
        \A t \in TeamIds \ LastTeams :
            LET new == RowFor(result.standings, t)
                old == RowFor(result.previous, t)
            IN /\ Present(new) <=> Present(old)
               /\ Present(new) => [Val(new) EXCEPT !.position = 0] = [Val(old) EXCEPT !.position = 0]

\* C18 witness: a step after which a team that did not play has moved in the table.
C18_Witness ==
    /\ pc = "replay"
    /\ result.i >= 1
    /\ \E t \in TeamIds \ LastTeams :
          /\ Present(RowFor(result.standings, t))
          /\ Present(RowFor(result.previous, t))
          /\ Val(RowFor(result.standings, t)).position # Val(RowFor(result.previous, t)).position

\* The results of team t in the first n matches of the log, oldest first.
ResultsOf(t, n) ==
    LET ms == input.matches
        Mine(k) == IsFinished(ms[k]) /\ t \in {ms[k].home, ms[k].away}
        idx == {k \in 1..n : Mine(k)}
        Nth(j) == CHOOSE k \in idx : Cardinality({l \in idx : l < k}) = j - 1
        Res(k) == LET gf == IF ms[k].home = t THEN ms[k].hg ELSE ms[k].ag
                      ga == IF ms[k].home = t THEN ms[k].ag ELSE ms[k].hg
                  IN IF gf > ga THEN "W" ELSE IF gf = ga THEN "D" ELSE "L"
    IN [j \in 1..Cardinality(idx) |-> Res(Nth(j))]

\* A form with the results of slots i and j exchanged.
Swapped(f, i, j) == [f EXCEPT ![i] = f[j], ![j] = f[i]]

\* C19: the form of a row lists at most the five most recent results of the
\* team, most recent first; formScore weights them in that order, so for a
\* five-result form moving a win into a more recent slot held by a non-win
\* never lowers the score.
C19_FormMostRecentFirst ==
    pc = "replay" =>
        \A k \in 1..Len(result.standings) :
            LET row == result.standings[k]
                all == ResultsOf(row.team, result.i)
                f == Val(formResults(row.form))
            IN /\ Present(row.form)
               /\ Len(f) = Min(5, Len(all))
               /\ \A j \in 1..Len(f) : f[j] = all[Len(all) + 1 - j]
               /\ Len(f) = 5 =>
                     \A i, j \in 1..5 :
                         (i < j /\ f[j] = "W" /\ f[i] # "W")
                             => formScore(Some(Swapped(f, i, j))) >= formScore(Some(f))

\* C19 witness: a row whose form holds five results, the oldest a win and the
\* most recent a defeat, for a team with more than five results.
C19_Witness ==
    /\ pc = "replay"
    /\ \E k \in 1..Len(result.standings) :
          LET f == Val(formResults(result.standings[k].form))
          IN /\ result.standings[k].playedGames > 5
             /\ Len(f) = 5
             /\ f[5] = "W"
             /\ f[1] = "L"

-----------------------------------------------------------------------------
(* computeStrengthOfSchedule of lib/football-api *)

\* Math.round(num / den) for num >= 0 and den > 0: floor(x + 0.5).
RoundRatio(num, den) == (2 * num + den) \div (2 * den)

\* The sum of points / playedGames over rows, as a fraction <<num, den>>; a
\* row without a played game adds 0.
RECURSIVE SumPPM(_)
SumPPM(rows) ==
    IF rows = <<>> THEN <<0, 1>>
    ELSE LET rest == SumPPM(Tail(rows))
             r == Head(rows)
         IN IF r.playedGames > 0
            THEN <<rest[1] * r.playedGames + r.points * rest[2], rest[2] * r.playedGames>>
            ELSE rest

\* Mutant: the score grows with the average position.
sosScoreInverted(sumPosition, counted, totalTeams) ==
    IF totalTeams = 1 THEN NotNum
    ELSE RoundRatio(100 * Max(0, Min(counted * (totalTeams - 1), sumPosition - counted)),
                    counted * (totalTeams - 1))

\* Math.round(Math.max(0, Math.min(1, 1 - (avgPosition - 1) / (totalTeams - 1))) * 100) / 100,
\* in hundredths, with avgPosition = sumPosition / counted.  A table of one
\* row divides by zero: 0 / 0 is NaN and stays NaN through min and max, a
\* positive numerator gives 1 - Infinity, which max raises to 0.
sosScore(sumPosition, counted, totalTeams) ==
    IF totalTeams = 1
    THEN IF sumPosition = counted THEN NotNum
         ELSE IF sumPosition > counted THEN 0 ELSE 100
    ELSE LET den == counted * (totalTeams - 1)
             num == den - (sumPosition - counted)
         IN RoundRatio(100 * Max(0, Min(den, num)), den)

\* The matches of the team that the filter keeps (a home score, and the team
\* on either side), cut to the last five by slice(-5).
teamMatches(teamId, finishedMatches) ==
    LET Mine(m) == m.hg # NotNum /\ (m.home = teamId \/ m.away = teamId)
        kept == SelectSeq(finishedMatches, Mine)
    IN SubSeq(kept, Max(1, Len(kept) - 4), Len(kept))

\* The standings rows of the opponents met in ms, in the order of ms; an
\* opponent without a row is passed over.
RECURSIVE oppStandings(_, _, _)
oppStandings(teamId, ms, standings) ==
    IF ms = <<>> THEN <<>>
    ELSE LET m == Head(ms)
             oppId == IF m.home = teamId THEN m.away ELSE m.home
             oppStanding == RowFor(standings, oppId)
         IN (IF Present(oppStanding) THEN <<Val(oppStanding)>> ELSE <<>>)
                \o oppStandings(teamId, Tail(ms), standings)

\* The record returned for the counted opponents' rows opps, null (Absent)
\* when counted is 0; recentOpponentsAvgPosition is in tenths,
\* recentOpponentsAvgPPM and sosScore in hundredths.
sosSummary(teamId, opps, totalTeams) ==
    LET counted == Len(opps)
        sumPosition == SumSeq([k \in 1..counted |-> opps[k].position])
        sumPPM == SumPPM(opps)
    IN IF counted = 0 THEN Absent
       ELSE Some([teamId |-> teamId,
                  recentOpponentsAvgPosition |-> RoundRatio(10 * sumPosition, counted),
                  recentOpponentsAvgPPM |-> RoundRatio(100 * sumPPM[1], sumPPM[2] * counted),
                  sosScore |-> sosScore(sumPosition, counted, totalTeams)])

computeStrengthOfSchedule(teamId, finishedMatches, standings) ==
    IF teamMatches(teamId, finishedMatches) = <<>> THEN Absent
    ELSE CHOOSE sos \in
             {sosSummary(teamId, opps, Len(standings)) :
                 opps \in {oppStandings(teamId, teamMatches(teamId, finishedMatches),
                                        standings)}} : TRUE

-----------------------------------------------------------------------------
(* main of scripts/backtest.ts: the replay loop over the finished matches *)

MIN_MATCHES == 5

\* sorted with m put behind every entry whose utcDate is not later: one step
\* of the stable sort.
insertByDate(sorted, m) ==
    LET n == Cardinality({k \in 1..Len(sorted) : sorted[k].date <= m.date})
    IN SubSeq(sorted, 1, n) \o <<m>> \o SubSeq(sorted, n + 1, Len(sorted))

\* .sort((a, b) => new Date(a.utcDate).getTime() - new Date(b.utcDate).getTime()):
\* ascending utcDate, entries of equal utcDate left in their order.
RECURSIVE sortByDate(_)
sortByDate(ms) ==
    IF ms = <<>> THEN <<>>
    ELSE CHOOSE out \in
             {insertByDate(sorted, ms[Len(ms)]) :
                 sorted \in {sortByDate(SubSeq(ms, 1, Len(ms) - 1))}} : TRUE

\* validMatches: the matches with a full-time score, sorted chronologically.
validMatchesOf(finishedMatches) == sortByDate(SelectSeq(finishedMatches, IsFinished))

\* Mutant: the slice runs up to and including the fixture.
matchesBeforeInclusive(validMatches, i) == SubSeq(validMatches, 1, i + 1)

\* validMatches.slice(0, i), i counted from 0 as in the loop.
matchesBeforeOf(validMatches, i) == SubSeq(validMatches, 1, i)

\* matchesBefore.filter(m => m.homeTeam.id === id || m.awayTeam.id === id).length
playedBefore(matchesBefore, id) ==
    Cardinality({k \in 1..Len(matchesBefore) :
                    matchesBefore[k].home = id \/ matchesBefore[k].away = id})

\* The map over the meetings with its three counters, the same in
\* computeH2H and in getHeadToHead of lib/football-api.
tally(h2hMatches, team1Id) ==
    LET winnerId(m) == IF m.hg > m.ag THEN m.home ELSE m.away
    IN [matches |-> h2hMatches,
        team1Wins |-> Cardinality({k \in 1..Len(h2hMatches) :
                                      /\ h2hMatches[k].hg # h2hMatches[k].ag
                                      /\ winnerId(h2hMatches[k]) = team1Id}),
        draws |-> Cardinality({k \in 1..Len(h2hMatches) :
                                  h2hMatches[k].hg = h2hMatches[k].ag}),
        team2Wins |-> Cardinality({k \in 1..Len(h2hMatches) :
                                      /\ h2hMatches[k].hg # h2hMatches[k].ag
                                      /\ winnerId(h2hMatches[k]) # team1Id})]

\* computeH2H: the prior meetings of the two teams and who won them.
computeH2H(matchesBefore, team1Id, team2Id) ==
    LET Meeting(m) == team1Id \in {m.home, m.away} /\ team2Id \in {m.home, m.away}
    IN CHOOSE r \in {tally(h2hMatches, team1Id) :
                        h2hMatches \in {SelectSeq(SelectSeq(matchesBefore, Meeting),
                                                  IsFinished)}} : TRUE

\* What one pass of the loop body hands to calculateStats for fixture i, or
\* Absent when the pass ends in "continue" because a standing is missing.
reconstruction(validMatches, i, teamMap) ==
    LET match == validMatches[i + 1]
        Built(matchesBefore, standings) ==
            IF Present(RowFor(standings, match.home)) /\ Present(RowFor(standings, match.away))
            THEN Some([index |-> i,
                       match |-> match,
                       matchesBefore |-> matchesBefore,
                       standings |-> standings,
                       homeStanding |-> Val(RowFor(standings, match.home)),
                       awayStanding |-> Val(RowFor(standings, match.away)),
                       homeSOS |-> computeStrengthOfSchedule(match.home, matchesBefore,
                                                             standings),
                       awaySOS |-> computeStrengthOfSchedule(match.away, matchesBefore,
                                                             standings),
                       headToHead |-> computeH2H(matchesBefore, match.home, match.away)])
            ELSE Absent
    IN CHOOSE r \in
           UNION {{Built(matchesBefore, standings) :
                      standings \in {buildStandings(matchesBefore, teamMap)}} :
                     matchesBefore \in {matchesBeforeOf(validMatches, i)}} : TRUE

\* getStakes of lib/match-context-api; Math.ceil(totalTeams * 0.3) is
\* (3 * totalTeams + 9) \div 10.
getStakes(position, totalTeams) ==
    IF position <= 2 THEN "title"
    ELSE IF position <= Min(6, (3 * totalTeams + 9) \div 10) THEN "europe"
    ELSE IF position > totalTeams - 3 THEN "relegation"
    ELSE "midtable"

\* getMatchContext; the teams of the logs are in no pair of DERBY_PAIRS.
getMatchContext(homeStanding, awayStanding, totalTeams) ==
    [homeStakes |-> getStakes(homeStanding.position, totalTeams),
     awayStakes |-> getStakes(awayStanding.position, totalTeams),
     isDerby |-> FALSE]

\* The season snapshots of the xG and Elo providers for a team: nothing when
\* the provider returned no table.
SnapshotXG(providers, t) ==
    IF providers = "none" THEN Absent
    ELSE Some([xGPerMatch |-> 260 - 60 * t, xGAPerMatch |-> 20 + 50 * t,
               recentXGPerMatch |-> 270 - 60 * t, recentXGAPerMatch |-> 10 + 50 * t,
               xGTrend |-> 40 - 20 * t])
SnapshotElo(providers, t) ==
    IF providers = "none" THEN Absent ELSE Some([elo |-> 2200 - 250 * t])

\* The object handed to calculateStats: odds, injuries, tactics, fatigue,
\* referee and squad quality are not passed.
engineInput(rec, providers) ==
    [homeStanding |-> [form |-> formResults(rec.homeStanding.form)],
     awayStanding |-> [form |-> formResults(rec.awayStanding.form)],
     homeInjuries |-> Absent, awayInjuries |-> Absent,
     homeCriticalAbsences |-> Absent, awayCriticalAbsences |-> Absent,
     homeSquadQuality |-> NotNum, awaySquadQuality |-> NotNum,
     headToHead |-> IF Len(rec.headToHead.matches) > 0 THEN Some(rec.headToHead) ELSE Absent,
     homeTactics |-> Absent, awayTactics |-> Absent,
     fatigue |-> Absent,
     homeXG |-> SnapshotXG(providers, rec.match.home),
     awayXG |-> SnapshotXG(providers, rec.match.away),
     homeElo |-> SnapshotElo(providers, rec.match.home),
     awayElo |-> SnapshotElo(providers, rec.match.away),
     odds |-> Absent,
     homeSOS |-> IF Present(rec.homeSOS)
                 THEN Some([sosScore |-> 100 * Val(rec.homeSOS).sosScore]) ELSE Absent,
     awaySOS |-> IF Present(rec.awaySOS)
                 THEN Some([sosScore |-> 100 * Val(rec.awaySOS).sosScore]) ELSE Absent,
     matchContext |-> Some(getMatchContext(rec.homeStanding, rec.awayStanding,
                                           Len(rec.standings))),
     referee |-> Absent]

\* hg > ag ? "1" : hg < ag ? "2" : "N"
actualOf(match) ==
    IF match.hg > match.ag THEN "1" ELSE IF match.hg < match.ag THEN "2" ELSE "N"

\* Mutant: on equal scores the draw is preferred.
predictedOutcomeDrawFirst(homeScore, drawScore, awayScore) ==
    IF drawScore >= homeScore /\ drawScore >= awayScore THEN "N"
    ELSE IF homeScore >= awayScore THEN "1"
    ELSE "2"

\* The if / else if / else over the three scores; a comparison with NaN is false.
predictedOutcome(homeScore, drawScore, awayScore) ==
    LET Geq(x, y) == ~IsNaN(x) /\ ~IsNaN(y) /\ x >= y
    IN IF Geq(homeScore, drawScore) /\ Geq(homeScore, awayScore) THEN "1"
       ELSE IF Geq(awayScore, homeScore) /\ Geq(awayScore, drawScore) THEN "2"
       ELSE "N"

\* The record pushed onto results; team ids stand for the team names.
matchResult(rec, statsScore) ==
    LET outcome == predictedOutcome(statsScore.homeScore, statsScore.drawScore,
                                    statsScore.awayScore)
    IN [homeTeam |-> rec.homeStanding.team,
        awayTeam |-> rec.awayStanding.team,
        predicted |-> [home |-> statsScore.homeScore, draw |-> statsScore.drawScore,
                       away |-> statsScore.awayScore],
        predictedOutcome |-> outcome,
        actual |-> actualOf(rec.match),
        correct |-> (outcome = actualOf(rec.match))]

\* bucketDefs of computeMetrics.
bucketDefs ==
    <<[label |-> "0-20%", min |-> 0, max |-> 20],
      [label |-> "20-30%", min |-> 20, max |-> 30],
      [label |-> "30-40%", min |-> 30, max |-> 40],
      [label |-> "40-50%", min |-> 40, max |-> 50],
      [label |-> "50-60%", min |-> 50, max |-> 60],
      [label |-> "60%+", min |-> 60, max |-> 100]>>

\* Mutant: the lower end of a range is left out of it, so a probability on a
\* lower end falls through to the last bucket.
bucketOfClosedBelow(prob) ==
    IF \E b \in 1..Len(bucketDefs) : prob > bucketDefs[b].min /\ prob < bucketDefs[b].max
    THEN CHOOSE b \in 1..Len(bucketDefs) :
             /\ prob > bucketDefs[b].min /\ prob < bucketDefs[b].max
             /\ \A c \in 1..(b - 1) : ~(prob > bucketDefs[c].min /\ prob < bucketDefs[c].max)
    ELSE Len(bucketDefs)

\* buckets.find((b) => prob >= b.min && prob < b.max) ?? buckets[buckets.length - 1]:
\* the index of the bucket; a comparison with NaN is false.
bucketOf(prob) ==
    LET Fits(b) == ~IsNaN(prob) /\ prob >= bucketDefs[b].min /\ prob < bucketDefs[b].max
    IN IF \E b \in 1..Len(bucketDefs) : Fits(b)
       THEN CHOOSE b \in 1..Len(bucketDefs) : Fits(b) /\ \A c \in 1..(b - 1) : ~Fits(c)
       ELSE Len(bucketDefs)

\* The three entries of a record: its probabilities with their hits.
entriesOf(r) ==
    <<[prob |-> r.predicted.home, hit |-> IF r.actual = "1" THEN 1 ELSE 0],
      [prob |-> r.predicted.draw, hit |-> IF r.actual = "N" THEN 1 ELSE 0],
      [prob |-> r.predicted.away, hit |-> IF r.actual = "2" THEN 1 ELSE 0]>>

\* The Brier term of a record, in 1/10000: the squared differences of the
\* three probabilities (hundredths) and the outcome indicators; NaN if a
\* probability is.
brierOf(r) ==
    LET e == entriesOf(r)
    IN IF \E k \in 1..3 : IsNaN(e[k].prob) THEN NotNum
       ELSE SumSeq([k \in 1..3 |-> (e[k].prob - 100 * e[k].hit) * (e[k].prob - 100 * e[k].hit)])

\* The log-loss term of a record is -Math.log(Math.max(eps, p)) for the
\* probability p of the realized class: logArgOf is the argument of the
\* logarithm in millionths (eps = 1e-6 is 1), NaN if p is; the term is finite
\* when the argument is a positive number.
logArgOf(r) ==
    LET p == IF r.actual = "1" THEN r.predicted.home
             ELSE IF r.actual = "N" THEN r.predicted.draw ELSE r.predicted.away
    IN IF IsNaN(p) THEN NotNum ELSE Max(1, 10000 * p)

\* The calibration buckets after the entries es: every entry is added to the
\* bucket bucketOf gives it.
calibrationOf(es) ==
    [b \in 1..Len(bucketDefs) |->
        LET mine == {k \in 1..Len(es) : bucketOf(es[k].prob) = b}
        IN [label |-> bucketDefs[b].label, min |-> bucketDefs[b].min, max |-> bucketDefs[b].max,
            sumPredicted |-> SumSeq([k \in 1..Len(es) |->
                                        IF k \in mine THEN es[k].prob ELSE 0]),
            sumActual |-> SumSeq([k \in 1..Len(es) |-> IF k \in mine THEN es[k].hit ELSE 0]),
            count |-> Cardinality(mine)]]

RECURSIVE allEntries(_)
allEntries(results) ==
    IF results = <<>> THEN <<>> ELSE entriesOf(Head(results)) \o allEntries(Tail(results))

\* computeMetrics: null (Absent) for no record; brier and logArg keep the
\* per-record terms that brierSum and logLossSum add up.
computeMetrics(results) ==
    IF Len(results) = 0 THEN Absent
    ELSE Some([total |-> Len(results),
               correct |-> Cardinality({k \in 1..Len(results) : results[k].correct}),
               brier |-> [k \in 1..Len(results) |-> brierOf(results[k])],
               logArg |-> [k \in 1..Len(results) |-> logArgOf(results[k])],
               homeCount |-> Cardinality({k \in 1..Len(results) : results[k].actual = "1"}),
               drawCount |-> Cardinality({k \in 1..Len(results) : results[k].actual = "N"}),
               awayCount |-> Cardinality({k \in 1..Len(results) : results[k].actual = "2"}),
               calibration |-> calibrationOf(allEntries(results))])

MaxExtra == 3    \* matches of a log after the opening run

\* The logs open with MIN_MATCHES meetings of teams 1 and 2 on days
\* 1..MIN_MATCHES; each later match is one of ExtraMatches (home, away, home
\* goals, away goals), kicking off with the match before it (gap 0) or a day
\* later (gap 1).
ExtraMatches == {<<2, 1, 1, 1>>, <<3, 4, 1, 0>>, <<1, 3, 0, 2>>}
OpeningScores == <<<<1, 0>>, <<1, 1>>, <<0, 2>>>>

OpeningRun ==
    [k \in 1..MIN_MATCHES |->
        [home |-> IF k % 2 = 1 THEN 1 ELSE 2, away |-> IF k % 2 = 1 THEN 2 ELSE 1,
         hg |-> OpeningScores[1 + (k % 3)][1], ag |-> OpeningScores[1 + (k % 3)][2],
         date |-> k]]

RECURSIVE ExtraRuns(_, _)
ExtraRuns(n, day) ==
    IF n = 0 THEN {<<>>}
    ELSE {<<>>} \cup
         UNION {{<<[home |-> x[1], away |-> x[2], hg |-> x[3], ag |-> x[4],
                    date |-> day + gap]>> \o rest : rest \in ExtraRuns(n - 1, day + gap)} :
                   x \in ExtraMatches, gap \in {0, 1}}

\* No team is in two matches that kick off together.
OneMatchAtATime(ms) ==
    \A a, b \in 1..Len(ms) :
        (a < b /\ ms[a].date = ms[b].date)
            => {ms[a].home, ms[a].away} \cap {ms[b].home, ms[b].away} = {}

Unscored == [home |-> 3, away |-> 4, hg |-> NotNum, ag |-> NotNum, date |-> 0]

Reversed(ms) == [k \in 1..Len(ms) |-> ms[Len(ms) + 1 - k]]

\* The response of the matches endpoint: oldest first, newest first, or
\* oldest first with a match that has no score.
\* A double round-robin of teams 1, 2 and 3: six matches on days 1..6, the
\* scores taken in turn from OpeningScores starting at v.
RoundRobinPairs == <<<<1, 2>>, <<3, 1>>, <<2, 3>>, <<2, 1>>, <<1, 3>>, <<3, 2>>>>
RoundRobins ==
    {[k \in 1..6 |->
         [home |-> RoundRobinPairs[k][1], away |-> RoundRobinPairs[k][2],
          hg |-> OpeningScores[1 + ((k + v) % 3)][1],
          ag |-> OpeningScores[1 + ((k + v) % 3)][2], date |-> k]] : v \in 0..2}

FinishedLogs ==
    LET chronological == {log \in {OpeningRun \o x : x \in ExtraRuns(MaxExtra, MIN_MATCHES)} :
                             OneMatchAtATime(log)}
    IN chronological \cup {Reversed(log) : log \in chronological}
           \cup {<<Unscored>> \o log : log \in chronological}
           \cup RoundRobins

InitBacktest ==
    /\ input \in {[finishedMatches |-> log, teamMap |-> TeamIds, providers |-> pr] :
                     log \in FinishedLogs, pr \in {"none", "full"}}
    /\ result = [validMatches |-> <<>>, i |-> 0, last |-> Absent, results |-> <<>>,
                 metrics |-> Absent]
    /\ pc = "load"
    /\ NamesIdle

\* The filter and sort that produce validMatches.
LoadMatches ==
    /\ pc = "load"
    /\ result' = [result EXCEPT !.validMatches = validMatchesOf(input.finishedMatches)]
    /\ pc' = "loop"
    /\ UNCHANGED <<input, nameA, nameB, table, answer, op>>

\* Mutant: the threshold is asked of the home team alone.
EnoughBeforeHomeOnly ==
    playedBefore(matchesBeforeOf(result.validMatches, result.i),
                 result.validMatches[result.i + 1].home) >= MIN_MATCHES

\* Neither count is below MIN_MATCHES.
EnoughBefore ==
    LET match == result.validMatches[result.i + 1]
        matchesBefore == matchesBeforeOf(result.validMatches, result.i)
    IN /\ playedBefore(matchesBefore, match.home) >= MIN_MATCHES
       /\ playedBefore(matchesBefore, match.away) >= MIN_MATCHES

\* A pass that ends in "continue": a team has fewer than MIN_MATCHES prior matches.
SkipFixture ==
    /\ pc = "loop"
    /\ result.i < Len(result.validMatches)
    /\ ~EnoughBefore
    /\ result' = [result EXCEPT !.i = @ + 1, !.last = Absent]
    /\ UNCHANGED <<input, pc, nameA, nameB, table, answer, op>>

\* A pass that reconstructs the inputs of the fixture, runs the engine on
\* them and pushes the record; an exception of the engine leaves main.
EvaluateFixture ==
    /\ pc = "loop"
    /\ result.i < Len(result.validMatches)
    /\ EnoughBefore
    /\ \E rec \in {reconstruction(result.validMatches, result.i, input.teamMap)} :
          IF ~Present(rec)
          THEN /\ result' = [result EXCEPT !.i = @ + 1, !.last = rec]
               /\ pc' = pc
          ELSE \E statsScore \in {calculateStats(engineInput(Val(rec), input.providers))} :
                  IF statsScore.threw
                  THEN /\ result' = [result EXCEPT !.last = rec]
                       /\ pc' = "crashed"
                  ELSE /\ result' = [result EXCEPT
                                        !.i = @ + 1,
                                        !.last = rec,
                                        !.results = Append(@, matchResult(Val(rec),
                                                                          statsScore))]
                       /\ pc' = pc
    /\ UNCHANGED <<input, nameA, nameB, table, answer, op>>

\* After the last match computeMetrics runs on the records; without a record
\* main prints "Aucun match teste" and ends with process.exit(1).
EndReplay ==
    /\ pc = "loop"
    /\ result.i = Len(result.validMatches)
    /\ result' = [result EXCEPT !.metrics = computeMetrics(result.results)]
    /\ pc' = IF Len(result.results) = 0 THEN "exit" ELSE "done"
    /\ UNCHANGED <<input, nameA, nameB, table, answer, op>>

NextBacktest == LoadMatches \/ SkipFixture \/ EvaluateFixture \/ EndReplay

SpecBacktest == InitBacktest /\ [][NextBacktest]_vars

\* The teams that appear in the logs.
LogTeams == {1, 2, 3, 4}

\* The matches at loop indices 0..i-1 of validMatches in which team t played,
\* and t's goals for and against in the match at position k.
PriorOf(t, i) ==
    {k \in 1..i : t \in {result.validMatches[k].home, result.validMatches[k].away}}
ScoredIn(t, k) ==
    IF result.validMatches[k].home = t
    THEN result.validMatches[k].hg ELSE result.validMatches[k].ag
ConcededIn(t, k) ==
    IF result.validMatches[k].home = t
    THEN result.validMatches[k].ag ELSE result.validMatches[k].hg

\* t's goals for and against summed over the matches at positions ks.
RECURSIVE ScoredOver(_, _)
ScoredOver(t, ks) ==
    IF ks = {} THEN 0
    ELSE LET k == CHOOSE x \in ks : TRUE
         IN ScoredIn(t, k) + ScoredOver(t, ks \ {k})
RECURSIVE ConcededOver(_, _)
ConcededOver(t, ks) ==
    IF ks = {} THEN 0
    ELSE LET k == CHOOSE x \in ks : TRUE
         IN ConcededIn(t, k) + ConcededOver(t, ks \ {k})

\* C15: the table used for fixture i is the one of the matches at indices
\* 0..i-1 of the sorted log and of no other match: a team has a row exactly
\* when it played one of them, and in every row playedGames = won + draw +
\* lost = the number of those matches the team played, won, draw and lost
\* count its wins, draws and defeats among them, points = 3 * won + draw,
\* goalsFor and goalsAgainst are its goals in them and goalDifference =
\* goalsFor - goalsAgainst.
C15_RebuiltFromPriorMatches ==
    (pc = "loop" /\ Present(result.last)) =>
        LET e == Val(result.last)
        IN \A t \in LogTeams :
               LET prior == PriorOf(t, e.index)
                   row == RowFor(e.standings, t)
               IN /\ Present(row) <=> prior # {}
                  /\ Present(row) =>
                        /\ Val(row).playedGames = Val(row).won + Val(row).draw + Val(row).lost
                        /\ Val(row).playedGames = Cardinality(prior)
                        /\ Val(row).won =
                              Cardinality({k \in prior : ScoredIn(t, k) > ConcededIn(t, k)})
                        /\ Val(row).draw =
                              Cardinality({k \in prior : ScoredIn(t, k) = ConcededIn(t, k)})
                        /\ Val(row).points = 3 * Val(row).won + Val(row).draw
                        /\ Val(row).goalsFor = ScoredOver(t, prior)
                        /\ Val(row).goalsAgainst = ConcededOver(t, prior)
                        /\ Val(row).goalDifference = Val(row).goalsFor - Val(row).goalsAgainst

\* C15 witness: a fixture evaluated with later matches still in the log and a
\* table of four teams.
C15_Witness ==
    /\ pc = "loop"
    /\ Present(result.last)
    /\ Val(result.last).index + 1 < Len(result.validMatches)
    /\ Len(Val(result.last).standings) = 4

\* C16 (as claimed): every match handed to the standings, form, strength of
\* schedule and head-to-head of an evaluated fixture kicked off strictly
\* before the fixture.
C16_StrictlyEarlier ==
    (pc = "loop" /\ Present(result.last)) =>
        LET e == Val(result.last)
        IN \A k \in 1..Len(e.matchesBefore) : e.matchesBefore[k].date < e.match.date

-----------------------------------------------------------------------------
(* computeStrengthOfSchedule as a state machine: one call on one log and
   one table *)

MaxLog == 6    \* longest log handed to computeStrengthOfSchedule

\* The tables, as the team ids in rank order; a row has played two games,
\* the last-ranked none, and two points for every team ranked below it.
TableOrders == {<<2, 3>>, <<2, 1, 3>>, <<2, 3, 1, 4>>}
TableOf(order) ==
    [k \in 1..Len(order) |->
        [position |-> k, team |-> order[k],
         playedGames |-> IF k = Len(order) THEN 0 ELSE 2,
         points |-> 2 * (Len(order) - k)]]

\* The k-th entry of a log, on day k: team 1 against opponent 2, 3 or 4,
\* home and away in turn, or (entry 0) a match team 1 has no part in on odd
\* days and a match of team 1 without a score on even days.
LogEntries == {0, 2, 3, 4}
EntryOf(k, x) ==
    IF x = 0
    THEN IF k % 2 = 1
         THEN [home |-> 2, away |-> 3, hg |-> 1, ag |-> 1, date |-> k]
         ELSE [home |-> 1, away |-> 2, hg |-> NotNum, ag |-> NotNum, date |-> k]
    ELSE IF k % 2 = 1
         THEN [home |-> 1, away |-> x, hg |-> 1, ag |-> 0, date |-> k]
         ELSE [home |-> x, away |-> 1, hg |-> 1, ag |-> 0, date |-> k]

SOSLogs ==
    UNION {{[k \in 1..n |-> EntryOf(k, xs[k])] : xs \in [1..n -> LogEntries]} :
              n \in 0..MaxLog}

InitSOS ==
    /\ input \in {[teamId |-> 1, finishedMatches |-> log, standings |-> TableOf(order)] :
                     log \in SOSLogs, order \in TableOrders}
    /\ result = Absent
    /\ pc = "ready"
    /\ NamesIdle

ComputeSOS ==
    /\ pc = "ready"
    /\ result' = computeStrengthOfSchedule(input.teamId, input.finishedMatches,
                                           input.standings)
    /\ pc' = "done"
    /\ UNCHANGED <<input, nameA, nameB, table, answer, op>>

NextSOS == ComputeSOS

SpecSOS == InitSOS /\ [][NextSOS]_vars

\* The opponent of the team in the match at position k of a log.
OpponentIn(log, k) == IF log[k].home = input.teamId THEN log[k].away ELSE log[k].home

\* The positions of a log that count: the five latest finished matches of the
\* team (days grow along the log), those of them whose opponent has a row.
CountedIn(log) ==
    LET mine == {k \in 1..Len(log) :
                    log[k].hg # NotNum /\ input.teamId \in {log[k].home, log[k].away}}
        recent == {k \in mine : Cardinality({l \in mine : log[l].date > log[k].date}) < 5}
    IN {k \in recent : Present(RowFor(input.standings, OpponentIn(log, k)))}

RankIn(log, k) == Val(RowFor(input.standings, OpponentIn(log, k))).position

RECURSIVE RankSum(_, _)
RankSum(log, ks) ==
    IF ks = {} THEN 0
    ELSE LET k == CHOOSE x \in ks : TRUE IN RankIn(log, k) + RankSum(log, ks \ {k})

\* The log with the opponent at position k replaced by team o.
WithOpponent(log, k, o) ==
    IF log[k].home = input.teamId THEN [log EXCEPT ![k].away = o]
    ELSE [log EXCEPT ![k].home = o]

\* C20: the call returns null exactly when no match counts; otherwise the
\* average position and points per match are those of the counted opponents
\* (a row of TableOf ranked r of n has n - r points per match), sosScore lies in
\* [0, 1], is 1 when every counted opponent is ranked first and 0 when every
\* one is ranked last, and does not decrease when a counted opponent is
\* replaced by a better-ranked team.
C20_SOSScore ==
    pc = "done" =>
        LET log == input.finishedMatches
            counted == CountedIn(log)
            n == Len(input.standings)
        IN /\ Present(result) <=> counted # {}
           /\ Present(result) =>
                 /\ Val(result).recentOpponentsAvgPosition =
                        RoundRatio(10 * RankSum(log, counted), Cardinality(counted))
                 /\ Val(result).recentOpponentsAvgPPM =
                        RoundRatio(100 * (n * Cardinality(counted) - RankSum(log, counted)),
                                   Cardinality(counted))
                 /\ Val(result).sosScore \in 0..100
                 /\ (\A k \in counted : RankIn(log, k) = 1) => Val(result).sosScore = 100
                 /\ (\A k \in counted : RankIn(log, k) = n) => Val(result).sosScore = 0
                 /\ \A k \in counted : \A j \in 1..n :
                       (j < RankIn(log, k) /\ input.standings[j].team # input.teamId)
                           => LET better == computeStrengthOfSchedule(
                                                input.teamId,
                                                WithOpponent(log, k, input.standings[j].team),
                                                input.standings)
                              IN /\ Present(better)
                                 /\ Val(better).sosScore >= Val(result).sosScore

\* C20 witness: a log with more than five finished matches of the team, an
\* opponent without a row among the last five, and a score strictly between
\* 0 and 1.
C20_Witness ==
    /\ pc = "done"
    /\ Present(result)
    /\ Val(result).sosScore \in 1..99
    /\ Cardinality({k \in 1..Len(input.finishedMatches) :
                       /\ input.finishedMatches[k].hg # NotNum
                       /\ input.teamId \in {input.finishedMatches[k].home,
                                            input.finishedMatches[k].away}}) > 5
    /\ Cardinality(CountedIn(input.finishedMatches)) \in 1..4

-----------------------------------------------------------------------------
(* getHeadToHead of lib/football-api and computeH2H of scripts/backtest.ts
   as a state machine: one call on one log *)

H2H_LIMIT == 10

\* matches: the FINISHED matches of the competition as the endpoint lists
\* them; the two filters, slice(-limit) and the tally.
getHeadToHead(matches, team1Id, team2Id, limit) ==
    LET Meeting(m) == team1Id \in {m.home, m.away} /\ team2Id \in {m.home, m.away}
        kept == SelectSeq(SelectSeq(matches, Meeting), IsFinished)
    IN CHOOSE r \in {tally(h2hMatches, team1Id) :
                        h2hMatches \in {SubSeq(kept, Max(1, Len(kept) - limit + 1),
                                               Len(kept))}} : TRUE

MaxMeetings == 12    \* longest log handed to a head-to-head helper

\* The k-th entry of a log follows one of the patterns, repeated: "h" team 1
\* beats team 2 at home, "a" team 2 beats team 1 at home, "d" they draw, "o"
\* team 1 meets team 3, "u" a meeting without a score.
H2HPatterns == {<<"h">>, <<"h", "a">>, <<"d", "h", "o">>, <<"a", "u", "d", "h">>,
                <<"o", "a", "a", "d", "u">>}
H2HEntry(k, x) ==
    IF x = "h" THEN [home |-> 1, away |-> 2, hg |-> 2, ag |-> 0, date |-> k]
    ELSE IF x = "a" THEN [home |-> 2, away |-> 1, hg |-> 1, ag |-> 0, date |-> k]
    ELSE IF x = "d" THEN [home |-> 2, away |-> 1, hg |-> 1, ag |-> 1, date |-> k]
    ELSE IF x = "o" THEN [home |-> 1, away |-> 3, hg |-> 0, ag |-> 1, date |-> k]
    ELSE [home |-> 1, away |-> 2, hg |-> NotNum, ag |-> NotNum, date |-> k]

H2HLogs ==
    {[k \in 1..n |-> H2HEntry(k, pat[1 + ((k - 1) % Len(pat))])] :
        n \in 0..MaxMeetings, pat \in H2HPatterns}

InitH2H ==
    /\ input \in {[matches |-> log, team1Id |-> t[1], team2Id |-> t[2]] :
                     log \in H2HLogs, t \in {<<1, 2>>, <<2, 1>>, <<1, 3>>}}
    /\ result = [fn |-> "none", h2h |-> Absent]
    /\ pc = "ready"
    /\ NamesIdle

\* The live helper, called by the predict route with the default limit.
GetHeadToHead ==
    /\ pc = "ready"
    /\ result' = [fn |-> "getHeadToHead",
                  h2h |-> Some(getHeadToHead(input.matches, input.team1Id, input.team2Id,
                                             H2H_LIMIT))]
    /\ pc' = "done"
    /\ UNCHANGED <<input, nameA, nameB, table, answer, op>>

\* The backtest helper, called on matchesBefore.
ComputeH2H ==
    /\ pc = "ready"
    /\ result' = [fn |-> "computeH2H",
                  h2h |-> Some(computeH2H(input.matches, input.team1Id, input.team2Id))]
    /\ pc' = "done"
    /\ UNCHANGED <<input, nameA, nameB, table, answer, op>>

NextH2H == GetHeadToHead \/ ComputeH2H

SpecH2H == InitH2H /\ [][NextH2H]_vars

\* The finished meetings of the pair in the log, oldest first.
MeetingsOf(log, a, b) ==
    LET Meets(m) == {m.home, m.away} = {a, b} /\ m.hg # NotNum /\ m.ag # NotNum
    IN SelectSeq(log, Meets)

\* The same helper called with the two teams exchanged.
SwappedCall ==
    IF result.fn = "getHeadToHead"
    THEN getHeadToHead(input.matches, input.team2Id, input.team1Id, H2H_LIMIT)
    ELSE computeH2H(input.matches, input.team2Id, input.team1Id)

\* The tally of a helper's answer: only finished meetings of the pair are
\* returned, the three counters add up to their number, and exchanging the
\* team arguments exchanges team1Wins and team2Wins.
TallyIsSound ==
    LET r == Val(result.h2h)
        all == MeetingsOf(input.matches, input.team1Id, input.team2Id)
    IN /\ \A k \in 1..Len(r.matches) : \E j \in 1..Len(all) : all[j] = r.matches[k]
       /\ r.team1Wins + r.draws + r.team2Wins = Len(r.matches)
       /\ SwappedCall.team1Wins = r.team2Wins
       /\ SwappedCall.team2Wins = r.team1Wins
       /\ SwappedCall.draws = r.draws
       /\ SwappedCall.matches = r.matches

\* The answer holds the min(N, all) most recent finished meetings.
CappedToLimit ==
    LET r == Val(result.h2h)
        all == MeetingsOf(input.matches, input.team1Id, input.team2Id)
    IN /\ Len(r.matches) <= H2H_LIMIT
       /\ r.matches = SubSeq(all, Max(1, Len(all) - H2H_LIMIT + 1), Len(all))

\* C21 (as claimed): both helpers return a sound tally of no more than the
\* N = 10 most recent finished meetings of the pair.
C21_TallyOfRecentMeetings ==
    pc = "done" => (TallyIsSound /\ CappedToLimit)

-----------------------------------------------------------------------------
(* The records of the replay *)

\* The loop indices below i whose fixture has both teams in at least
\* MIN_MATCHES of the matches before it, counted on validMatches.
AppearancesBefore(t, j) ==
    Cardinality({k \in 1..j : t \in {result.validMatches[k].home,
                                     result.validMatches[k].away}})
Qualifying(i) ==
    {j \in 0..(i - 1) :
        /\ AppearancesBefore(result.validMatches[j + 1].home, j) >= 5
        /\ AppearancesBefore(result.validMatches[j + 1].away, j) >= 5}

\* C22: after the passes for indices 0..i-1 the loop has not stopped on an
\* error and results holds one record per fixture whose two teams each
\* appear in at least 5 of the matches before it, in loop order, and none for
\* any other fixture.
C22_EvaluatedIffEnoughHistory ==
    /\ pc # "crashed"
    /\ pc \in {"loop", "done", "exit"} =>
          LET q == Qualifying(result.i)
          IN /\ Len(result.results) = Cardinality(q)
             /\ \A j \in q :
                   LET r == result.results[Cardinality({l \in q : l <= j})]
                   IN /\ r.homeTeam = result.validMatches[j + 1].home
                      /\ r.awayTeam = result.validMatches[j + 1].away

\* C22 witness: the loop has both skipped a fixture and evaluated one after it.
C22_Witness ==
    /\ pc = "loop"
    /\ Present(result.last)
    /\ Len(result.results) >= 1
    /\ Len(result.results) < result.i

\* The fixture of the k-th record: the k-th qualifying loop index.
FixtureOf(k) ==
    LET q == Qualifying(result.i)
    IN result.validMatches[1 + CHOOSE j \in q : Cardinality({l \in q : l <= j}) = k]

\* C23: in every record the label names a class of maximal probability,
\* home ("1") before away ("2") before draw ("N") on equal maxima, and correct
\* is true exactly when the label is the result read off the fixture's
\* full-time score.
C23_LabelIsArgMax ==
    pc \in {"loop", "done", "exit"} =>
        \A k \in 1..Len(result.results) :
            LET r == result.results[k]
                p == r.predicted
                top == Max(p.home, Max(p.draw, p.away))
                m == FixtureOf(k)
                realized == IF m.hg > m.ag THEN "1" ELSE IF m.hg = m.ag THEN "N" ELSE "2"
            IN /\ r.predictedOutcome \in {"1", "2", "N"}
               /\ r.predictedOutcome = "1" <=> p.home = top
               /\ r.predictedOutcome = "2" <=> (p.away = top /\ p.home < top)
               /\ r.predictedOutcome = "N" <=> (p.draw = top /\ p.home < top /\ p.away < top)
               /\ r.actual = realized
               /\ r.correct <=> (r.predictedOutcome = realized)

\* C23 witness: a record whose away and draw probabilities are equal and
\* maximal, and a record whose label is wrong.
C23_Witness ==
    /\ pc \in {"loop", "done", "exit"}
    /\ \E k \in 1..Len(result.results) :
          LET p == result.results[k].predicted
          IN p.away = p.draw /\ p.home < p.away
    /\ \E k \in 1..Len(result.results) : ~result.results[k].correct

-----------------------------------------------------------------------------
(* computeMetrics as a state machine: one call on one list of records *)

MaxResults == 2    \* longest list of records handed to computeMetrics

\* Predictions (home, draw, away) that sum to 100, with probabilities on the
\* ends of the bucket ranges and on the ends of 0..100.
PredictedPool == {<<60, 20, 20>>, <<50, 30, 20>>, <<40, 30, 30>>, <<82, 9, 9>>,
                  <<19, 21, 60>>, <<59, 29, 12>>, <<100, 0, 0>>}

RecordPool ==
    {[homeTeam |-> 1, awayTeam |-> 2,
      predicted |-> [home |-> p[1], draw |-> p[2], away |-> p[3]],
      predictedOutcome |-> predictedOutcome(p[1], p[2], p[3]),
      actual |-> a,
      correct |-> (predictedOutcome(p[1], p[2], p[3]) = a)] :
        p \in PredictedPool, a \in {"1", "N", "2"}}

InitMetrics ==
    /\ input \in UNION {[1..n -> RecordPool] : n \in 0..MaxResults}
    /\ result = Absent
    /\ pc = "ready"
    /\ NamesIdle

ComputeMetrics ==
    /\ pc = "ready"
    /\ result' = computeMetrics(input)
    /\ pc' = "done"
    /\ UNCHANGED <<input, nameA, nameB, table, answer, op>>

NextMetrics == ComputeMetrics

SpecMetrics == InitMetrics /\ [][NextMetrics]_vars

\* The six ranges [0,20), [20,30), [30,40), [40,50), [50,60), [60,100].
InRange(b, prob) ==
    CASE b = 1 -> prob \in 0..19
      [] b = 2 -> prob \in 20..29
      [] b = 3 -> prob \in 30..39
      [] b = 4 -> prob \in 40..49
      [] b = 5 -> prob \in 50..59
      [] b = 6 -> prob \in 60..100

\* C24: every probability of every record is counted in the one bucket whose
\* range holds it: each bucket's count is the number of probabilities in its
\* range, its sumPredicted their sum, the counts add up to 3n and the hits
\* to n.
C24_BucketsPartition ==
    (pc = "done" /\ Len(input) > 0) =>
        LET c == Val(result).calibration
            n == Len(input)
            probs == [k \in 1..n |-> <<input[k].predicted.home, input[k].predicted.draw,
                                       input[k].predicted.away>>]
        IN /\ Present(result)
           /\ \A k \in 1..n : \A j \in 1..3 :
                 Cardinality({b \in 1..6 : InRange(b, probs[k][j])}) = 1
           /\ \A b \in 1..6 :
                 c[b].count = Cardinality({x \in (1..n) \X (1..3) :
                                              InRange(b, probs[x[1]][x[2]])})
           /\ SumSeq([b \in 1..6 |-> c[b].count]) = 3 * n
           /\ SumSeq([b \in 1..6 |-> c[b].sumActual]) = n
           /\ SumSeq([b \in 1..6 |-> c[b].sumPredicted]) = 100 * n

\* C24 witness: records with a probability of 100, of 20 and of 0.
C24_Witness ==
    /\ pc = "done"
    /\ Len(input) = 2
    /\ input[1].predicted.home = 100
    /\ input[2].predicted.away = 20
    /\ Val(result).calibration[6].count = 1
    /\ Val(result).calibration[2].count >= 1

-----------------------------------------------------------------------------
(* analyzePrediction of lib/claude-analyzer: the retry loop around
   anthropic.messages.create *)

MAX_RETRIES == 3

MODELS == <<"claude-sonnet-4-6", "claude-haiku-4-5-20251001">>

\* What a call can end in: 200 stands for a message, 0 for an error without a
\* status, any other number for an error with that status.
CallOutcomes == {200, 0, 400, 429, 500, 502, 503, 529}

\* Mutant: a rate-limit error is retried as well.
isRetryableWith429(status) == status \in {529, 500, 502, 503, 429}

isRetryable(status) == status = 529 \/ status = 500 \/ status = 502 \/ status = 503

\* attempt < MAX_RETRIES - 1 ? MODELS[0] : MODELS[1]
modelOf(attempt) == IF attempt < MAX_RETRIES - 1 THEN MODELS[1] ELSE MODELS[2]

\* Math.min(2000 * Math.pow(2, attempt), 10000), in ms
delayOf(attempt) == Min(2000 * 2 ^ attempt, 10000)

\* input: the outcome the service gives to the first, second and third call.
\* result: attempt is the loop counter, calls the calls made so far with the
\* time of each, clock the time in ms, delay the timer being waited for.
InitRetry ==
    /\ input \in [1..MAX_RETRIES -> CallOutcomes]
    /\ result = [attempt |-> 0, calls |-> <<>>, clock |-> 0, delay |-> 0,
                 message |-> FALSE, thrown |-> Absent]
    /\ pc = "create"
    /\ NamesIdle

\* One pass of the loop body up to the break, the throw or the start of the
\* timer.
CreateMessage ==
    /\ pc = "create"
    /\ result.attempt < MAX_RETRIES
    /\ LET status == input[result.attempt + 1]
           calls == Append(result.calls, [model |-> modelOf(result.attempt),
                                          at |-> result.clock, status |-> status])
       IN IF status = 200
          THEN /\ result' = [result EXCEPT !.calls = calls, !.message = TRUE]
               /\ pc' = "parse"
          ELSE IF ~isRetryable(status) \/ result.attempt = MAX_RETRIES - 1
          THEN /\ result' = [result EXCEPT !.calls = calls, !.thrown = Some(status)]
               /\ pc' = "thrown"
          ELSE /\ result' = [result EXCEPT !.calls = calls,
                                           !.delay = delayOf(result.attempt)]
               /\ pc' = "sleep"
    /\ UNCHANGED <<input, nameA, nameB, table, answer, op>>

\* The timer of setTimeout fires and the loop goes to its next pass.
TimerFires ==
    /\ pc = "sleep"
    /\ result' = [result EXCEPT !.clock = @ + result.delay, !.delay = 0,
                                !.attempt = @ + 1]
    /\ pc' = "create"
    /\ UNCHANGED <<input, nameA, nameB, table, answer, op>>

NextRetry == CreateMessage \/ TimerFires

SpecRetry == InitRetry /\ [][NextRetry]_vars

-----------------------------------------------------------------------------
(* POST of the predict route (app/api/predict/route) *)

LeagueCodes == {"CL", "PL", "PD", "SA", "BL1", "FL1"}

\* The labels of the calls wrapped in safeCall, by Promise.all batch.
FirstBatchCalls == {"injuries", "keyPlayers", "recentForm", "playerForms", "teamIds", "h2h",
                    "xG", "elo", "finishedMatches"}
SecondBatchCalls == {"homeNews", "awayNews", "homeTactics", "awayTactics", "scheduleData",
                     "odds"}
SafeCalls == FirstBatchCalls \cup SecondBatchCalls \cup {"referee"}

\* What request.json() gives: a rejection ("invalid"), the JSON value null, or
\* an object whose league is a code, another string or missing ("") and
\* whose team ids are numbers or missing (0).
RequestBodies ==
    {[kind |-> "invalid", league |-> "", homeTeamId |-> 0, awayTeamId |-> 0],
     [kind |-> "null", league |-> "", homeTeamId |-> 0, awayTeamId |-> 0]}
        \cup [kind : {"object"}, league : {"PL", "XX", ""}, homeTeamId : {57, 0},
              awayTeamId : {57, 61, 0}]

\* fails: the wrapped calls that throw if they are made; standings: the
\* outcome of getStandings ("missing": a table without one of the teams);
\* analysis: the outcome of analyzePrediction.
InitPredict ==
    /\ input \in [body : RequestBodies,
                  standings : {"ok", "throws", "missing"},
                  analysis : {"ok", "throws"},
                  fails : {{}, SafeCalls} \cup {{c} : c \in SafeCalls}]
    /\ result = [called |-> {}, fallbacks |-> {}, calculated |-> FALSE, status |-> 0,
                 handled |-> TRUE]
    /\ pc = "request"
    /\ NamesIdle

\* The response sent with the given status; handled is FALSE when the
\* exception left POST and the framework answered.
Respond(status, handled) ==
    /\ result' = [result EXCEPT !.status = status, !.handled = handled]
    /\ pc' = "responded"

\* Lines 15-38: request.json() and the three checks.  Destructuring the body
\* is outside both try blocks: on null it throws a TypeError out of POST.
ParseAndValidate ==
    /\ pc = "request"
    /\ LET body == input.body
       IN IF body.kind = "invalid" THEN Respond(400, TRUE)
          ELSE IF body.kind = "null" THEN Respond(500, FALSE)
          ELSE IF body.league = "" \/ body.league \notin LeagueCodes THEN Respond(400, TRUE)
          ELSE IF body.homeTeamId = 0 \/ body.awayTeamId = 0 THEN Respond(400, TRUE)
          ELSE IF body.homeTeamId = body.awayTeamId THEN Respond(400, TRUE)
          ELSE /\ pc' = "firstBatch"
               /\ UNCHANGED result
    /\ UNCHANGED <<input, nameA, nameB, table, answer, op>>

\* The first Promise.all: getStandings bare, the others through safeCall; then
\* the lookup of the two standings rows.
FirstBatch ==
    /\ pc = "firstBatch"
    /\ LET called == FirstBatchCalls \cup {"standings"}
           fallbacks == input.fails \cap FirstBatchCalls
       IN IF input.standings = "throws"
          THEN /\ result' = [result EXCEPT !.called = called, !.fallbacks = fallbacks,
                                           !.status = 500]
               /\ pc' = "responded"
          ELSE IF input.standings = "missing"
          THEN /\ result' = [result EXCEPT !.called = called, !.fallbacks = fallbacks,
                                           !.status = 404]
               /\ pc' = "responded"
          ELSE /\ result' = [result EXCEPT !.called = called, !.fallbacks = fallbacks]
               /\ pc' = "secondBatch"
    /\ UNCHANGED <<input, nameA, nameB, table, answer, op>>

\* The second Promise.all and the referee call: getTeamTactics is called when
\* the team id resolved (an empty teamIdMap resolves none), getRefereeStats
\* when the schedule data names a referee (defaultSchedule names none).
SecondBatch ==
    /\ pc = "secondBatch"
    /\ LET tactics == IF "teamIds" \in result.fallbacks THEN {}
                      ELSE {"homeTactics", "awayTactics"}
           referee == IF "scheduleData" \in input.fails THEN {} ELSE {"referee"}
           called == (SecondBatchCalls \ {"homeTactics", "awayTactics"}) \cup tactics
                         \cup referee
       IN result' = [result EXCEPT !.called = @ \cup called,
                                   !.fallbacks = @ \cup (input.fails \cap called)]
    /\ pc' = "calculate"
    /\ UNCHANGED <<input, nameA, nameB, table, answer, op>>

\* calculateStats is called with the object built from what the calls gave.
CalculateStats ==
    /\ pc = "calculate"
    /\ result' = [result EXCEPT !.calculated = TRUE]
    /\ pc' = "analyze"
    /\ UNCHANGED <<input, nameA, nameB, table, answer, op>>

\* analyzePrediction and the response, or the catch at line 193.
AnalyzeAndRespond ==
    /\ pc = "analyze"
    /\ result' = [result EXCEPT !.called = @ \cup {"analysis"},
                                !.status = IF input.analysis = "throws" THEN 500 ELSE 200]
    /\ pc' = "responded"
    /\ UNCHANGED <<input, nameA, nameB, table, answer, op>>

NextPredict ==
    ParseAndValidate \/ FirstBatch \/ SecondBatch \/ CalculateStats \/ AnalyzeAndRespond

SpecPredict == InitPredict /\ [][NextPredict]_vars

\* A request passes validation: its body names a known league and two
\* different team ids.
PassesValidation ==
    /\ input.body.kind = "object"
    /\ input.body.league \in {"CL", "PL", "PD", "SA", "BL1", "FL1"}
    /\ input.body.homeTeamId # 0
    /\ input.body.awayTeamId # 0
    /\ input.body.homeTeamId # input.body.awayTeamId

\* A request that passes validation is answered 500 only when getStandings
\* or analyzePrediction throws, 404 when a team is not in the standings, and
\* otherwise 200 after calculateStats, every wrapped call that threw having
\* been replaced by its fallback.
ValidRequestAnswered ==
    (pc = "responded" /\ PassesValidation) =>
        /\ result.handled
        /\ result.status = 500 => (input.standings = "throws" \/ input.analysis = "throws")
        /\ input.standings = "throws" => result.status = 500
        /\ input.standings = "missing" => result.status = 404
        /\ input.standings = "ok" =>
              /\ result.calculated
              /\ result.fallbacks = input.fails \cap result.called
              /\ result.status = IF input.analysis = "throws" THEN 500 ELSE 200

\* A request that does not pass validation is answered 400 before any
\* provider is called.
InvalidRequestRefused ==
    (pc = "responded" /\ ~PassesValidation) =>
        /\ result.status = 400
        /\ result.handled
        /\ result.called = {}

\* C27 (as claimed): both of the above.
C27_OnlyCriticalCallsFail ==
    ValidRequestAnswered /\ InvalidRequestRefused

\* ---------------------------------------------------------------------------
\* PredictionForm (src/app/components/prediction-form.tsx): the league effect,
\* the matchday tabs, handleSelectMatch and the requests they leave in flight.
\* `result` holds the component's state (the useState cells and abortRef),
\* `input` the requests issued so far with the state of each.
\* ---------------------------------------------------------------------------
MaxRequests == 2
MaxListRequests == 2

FormLeagues == {"PL", "SA"}

\* What /api/matches answers for a league: the matchday groups and the
\* current matchday.
MatchesApiResponse(l) ==
    IF l = "PL"
    THEN [currentMatchday |-> 2,
          matchdays |-> <<[matchday |-> 1, matches |-> {11}],
                          [matchday |-> 2, matches |-> {12}]>>]
    ELSE [currentMatchday |-> 5,
          matchdays |-> <<[matchday |-> 5, matches |-> {21}]>>]

\* activeMatches: the matches of the displayed group whose matchday is the
\* active one, none if there is no such group.
activeMatches(form) ==
    UNION {form.matchdays[j].matches :
             j \in {j \in 1..Len(form.matchdays) :
                      form.matchdays[j].matchday = form.activeMatchday}}

\* The state after the first render and the run of the league effect with
\* league = "".
InitForm ==
    /\ result = [league |-> "", matchdays |-> <<>>, activeMatchday |-> 0,
                 selectedMatch |-> Absent, prediction |-> Absent,
                 loading |-> FALSE, matchesLoading |-> FALSE,
                 error |-> Absent, abortRef |-> Absent]
    /\ input = [predicts |-> <<>>, lists |-> <<>>]
    /\ pc = "form"
    /\ NamesIdle

\* The select's onChange (disabled while loading) sets league, and the effect
\* on league runs: with no league it empties the list and the selection and
\* returns; otherwise it clears selection, prediction and error and issues
\* the request for the league's matches.
ChangeLeague(l) ==
    /\ pc = "form"
    /\ ~result.loading
    /\ l # result.league
    /\ IF l = ""
       THEN /\ result' = [result EXCEPT !.league = l, !.matchdays = <<>>,
                                        !.activeMatchday = 0,
                                        !.selectedMatch = Absent]
            /\ input' = input
       ELSE /\ Len(input.lists) < MaxListRequests
            /\ result' = [result EXCEPT !.league = l, !.matchesLoading = TRUE,
                                        !.selectedMatch = Absent,
                                        !.prediction = Absent,
                                        !.error = Absent]
            /\ input' = [input EXCEPT !.lists =
                            Append(@, [league |-> l, status |-> "pending"])]
    /\ UNCHANGED <<pc, nameA, nameB, table, answer, op>>

\* The response of a match-list request arrives with res.ok: the two then
\* callbacks and the finally callback.
ListResponds(k) ==
    /\ pc = "form"
    /\ input.lists[k].status = "pending"
    /\ LET data == MatchesApiResponse(input.lists[k].league)
       IN result' = [result EXCEPT !.matchdays = data.matchdays,
                                   !.activeMatchday = data.currentMatchday,
                                   !.matchesLoading = FALSE]
    /\ input' = [input EXCEPT !.lists[k].status = "ok"]
    /\ UNCHANGED <<pc, nameA, nameB, table, answer, op>>

\* A match-list request fails (rejected fetch, non-OK response or a body that
\* is not JSON): the catch and the finally callback.
ListFails(k) ==
    /\ pc = "form"
    /\ input.lists[k].status = "pending"
    /\ result' = [result EXCEPT !.error = Some("Impossible de charger les matchs"),
                                !.matchesLoading = FALSE]
    /\ input' = [input EXCEPT !.lists[k].status = "failed"]
    /\ UNCHANGED <<pc, nameA, nameB, table, answer, op>>

\* A matchday tab (rendered when there are several groups, disabled while
\* loading) is clicked.
ClickMatchday(j) ==
    /\ pc = "form"
    /\ ~result.loading
    /\ Len(result.matchdays) > 1
    /\ j \in 1..Len(result.matchdays)
    /\ result' = [result EXCEPT !.activeMatchday = result.matchdays[j].matchday,
                                !.selectedMatch = Absent,
                                !.prediction = Absent,
                                !.error = Absent]
    /\ UNCHANGED <<input, pc, nameA, nameB, table, answer, op>>

\* What the catch and finally of handleSelectMatch do for request k when its
\* fetch rejects with message msg: nothing if k is no longer the active
\* controller, else the error is shown and loading ends.
settleRejected(form, k, msg) ==
    IF form.abortRef # Some(k)
    THEN form
    ELSE [form EXCEPT !.error = Some(msg), !.loading = FALSE]

\* handleSelectMatch up to its await (the match buttons are disabled while
\* loading): the active controller is aborted, a new one becomes active, the
\* 60 s timer is armed and the request is issued with the league of this
\* render.  The rejection of an aborted, still pending request is settled
\* with it.
SelectMatch(m) ==
    /\ pc = "form"
    /\ ~result.loading
    /\ m \in activeMatches(result)
    /\ Len(input.predicts) < MaxRequests
    /\ LET k == Len(input.predicts) + 1
           aborted == [j \in 1..Len(input.predicts) |->
                         IF result.abortRef = Some(j)
                            /\ input.predicts[j].status = "pending"
                         THEN [input.predicts[j] EXCEPT !.status = "aborted",
                                                        !.timer = FALSE]
                         ELSE input.predicts[j]]
       IN /\ input' = [input EXCEPT !.predicts =
                          Append(aborted, [match |-> m, league |-> result.league,
                                           status |-> "pending", timer |-> TRUE])]
          /\ result' = [result EXCEPT !.abortRef = Some(k),
                                      !.selectedMatch = Some(m),
                                      !.loading = TRUE,
                                      !.error = Absent,
                                      !.prediction = Absent]
    /\ UNCHANGED <<pc, nameA, nameB, table, answer, op>>

\* The response of prediction request k arrives with res.ok and its body is
\* read: setPrediction, then the finally block.
PredictResponds(k) ==
    /\ pc = "form"
    /\ input.predicts[k].status = "pending"
    /\ LET data == [request |-> k, match |-> input.predicts[k].match,
                    league |-> input.predicts[k].league]
       IN result' = [result EXCEPT !.prediction = Some(data),
                                   !.loading = IF result.abortRef = Some(k)
                                               THEN FALSE ELSE @]
    /\ input' = [input EXCEPT !.predicts[k].status = "ok",
                              !.predicts[k].timer = FALSE]
    /\ UNCHANGED <<pc, nameA, nameB, table, answer, op>>

\* Prediction request k fails other than by abort (non-OK response or a
\* rejected fetch): the catch shows the message, if k is still active.
PredictFails(k) ==
    /\ pc = "form"
    /\ input.predicts[k].status = "pending"
    /\ result' = settleRejected(result, k, "Erreur de prédiction")
    /\ input' = [input EXCEPT !.predicts[k].status = "failed",
                              !.predicts[k].timer = FALSE]
    /\ UNCHANGED <<pc, nameA, nameB, table, answer, op>>

\* The 60 s timer of request k fires while the request is pending: its
\* controller aborts, the fetch rejects with an AbortError.
PredictTimesOut(k) ==
    /\ pc = "form"
    /\ input.predicts[k].status = "pending"
    /\ input.predicts[k].timer
    /\ result' = settleRejected(result, k,
                                "L'analyse a pris trop de temps. Réessayez.")
    /\ input' = [input EXCEPT !.predicts[k].status = "aborted",
                              !.predicts[k].timer = FALSE]
    /\ UNCHANGED <<pc, nameA, nameB, table, answer, op>>

NextForm ==
    \/ \E l \in FormLeagues \cup {""} : ChangeLeague(l)
    \/ \E k \in 1..Len(input.lists) : ListResponds(k)
    \/ \E k \in 1..Len(input.lists) : ListFails(k)
    \/ \E j \in 1..2 : ClickMatchday(j)
    \/ \E m \in {11, 12, 21} : SelectMatch(m)
    \/ \E k \in 1..Len(input.predicts) : PredictResponds(k)
    \/ \E k \in 1..Len(input.predicts) : PredictFails(k)
    \/ \E k \in 1..Len(input.predicts) : PredictTimesOut(k)

SpecForm == InitForm /\ [][NextForm]_vars

\* The request the active controller belongs to.
ActiveRequest == input.predicts[Val(result.abortRef)]

\* C28 (as claimed): whenever a prediction is displayed, a match is selected
\* and the prediction is the response to the request that was issued for that
\* match and is the active one.
C28_DisplayedIsForSelected ==
    (pc = "form" /\ Present(result.prediction)) =>
        /\ Present(result.selectedMatch)
        /\ Present(result.abortRef)
        /\ Val(result.prediction).request = Val(result.abortRef)
        /\ ActiveRequest.match = Val(result.selectedMatch)

\* C29 (as claimed): when no match-list request is outstanding and the
\* request for the selected league succeeded, the matchdays displayed are the
\* ones of the selected league.
C29_MatchdaysOfSelectedLeague ==
    (/\ pc = "form"
     /\ result.league # ""
     /\ \A k \in 1..Len(input.lists) : input.lists[k].status # "pending"
     /\ input.lists[Len(input.lists)].status = "ok") =>
        result.matchdays = MatchesApiResponse(result.league).matchdays

\* ---------------------------------------------------------------------------
\* The provider caches: getLeagueXG (src/lib/understat-api.ts) and
\* getAllEloRatings (src/unnamed/part_003).  `result` holds the two module
\* level Maps (one function over their keys) and the clock, `input` the calls
\* made so far, each with what it read, requested and returned.  A call that
\* fetches is two steps, the part before the await and the part after it, so
\* that calls overlap as they do in the server.
\* ---------------------------------------------------------------------------
MaxCalls == 2
MaxTicks == 3

HOUR == 60 * 60 * 1000
XG_CACHE_TTL == 6 * 60 * 60 * 1000
ELO_CACHE_TTL == 24 * 60 * 60 * 1000

\* The instants at which the model lets a call be made or a request be
\* answered: 0 h, 3 h, 6 h, then 24 h, 27 h and so on, so that an entry is
\* read both younger and older than either lifetime.
Instant(i) == IF i <= 2 THEN i * 3 * HOUR ELSE (24 + 3 * (i - 3)) * HOUR

\* UNDERSTAT_LEAGUES[leagueCode], Absent for a code that is not a key.
UNDERSTAT_LEAGUES(leagueCode) ==
    IF leagueCode = "PL" THEN Some("EPL")
    ELSE IF leagueCode = "SA" THEN Some("Serie_A")
    ELSE Absent

CacheKeys == {"EPL", "Serie_A", "elo"}
CACHE_TTL(key) == IF key = "elo" THEN ELO_CACHE_TTL ELSE XG_CACHE_TTL

\* The empty result ({} or []); the data of a fetch is named by the call that
\* fetched it.
EmptyData == 0

\* cached && Date.now() - cached.ts < CACHE_TTL
isFresh(cached, now, ttl) ==
    Present(cached) /\ now - Val(cached).ts < ttl

\* Mutant of staleOrEmpty: a failed refresh returns the empty result.
staleDropped(cached) ==
    EmptyData

\* if (cached) return cached.data; return {} (or [])
staleOrEmpty(cached) ==
    IF Present(cached) THEN Val(cached).data ELSE EmptyData

InitCache ==
    /\ result = [cache |-> [key \in CacheKeys |-> Absent], tick |-> 0, now |-> 0]
    /\ input = <<>>
    /\ pc = "cache"
    /\ NamesIdle

Tick ==
    /\ pc = "cache"
    /\ result.tick < MaxTicks
    /\ result' = [result EXCEPT !.tick = @ + 1, !.now = Instant(result.tick + 1)]
    /\ UNCHANGED <<input, pc, nameA, nameB, table, answer, op>>

\* The part of a call before its await, for cache key `key`: a fresh entry
\* is returned, otherwise the request is issued.
lookup(fn, arg, key) ==
    LET cached == result.cache[key]
    IN IF isFresh(cached, result.now, CACHE_TTL(key))
       THEN [fn |-> fn, arg |-> arg, key |-> key, at |-> result.now,
             cached |-> cached, requested |-> FALSE, status |-> "cached",
             returned |-> Val(cached).data]
       ELSE [fn |-> fn, arg |-> arg, key |-> key, at |-> result.now,
             cached |-> cached, requested |-> TRUE, status |-> "fetching",
             returned |-> EmptyData]

\* getLeagueXG(leagueCode) up to its await.
GetLeagueXG(leagueCode) ==
    /\ pc = "cache"
    /\ Len(input) < MaxCalls
    /\ LET understatLeague == UNDERSTAT_LEAGUES(leagueCode)
       IN input' = Append(input,
             IF ~Present(understatLeague)
             THEN [fn |-> "getLeagueXG", arg |-> leagueCode, key |-> "",
                   at |-> result.now, cached |-> Absent, requested |-> FALSE,
                   status |-> "unsupported", returned |-> EmptyData]
             ELSE lookup("getLeagueXG", leagueCode, Val(understatLeague)))
    /\ UNCHANGED <<result, pc, nameA, nameB, table, answer, op>>

\* getAllEloRatings() up to its await.
GetAllEloRatings ==
    /\ pc = "cache"
    /\ Len(input) < MaxCalls
    /\ input' = Append(input, lookup("getAllEloRatings", "", "elo"))
    /\ UNCHANGED <<result, pc, nameA, nameB, table, answer, op>>

\* The request of call k is answered with res.ok and its body is converted:
\* cache.set(cacheKey, { data, ts: Date.now() }) and the data is returned.
FetchSucceeds(k) ==
    /\ pc = "cache"
    /\ input[k].status = "fetching"
    /\ result' = [result EXCEPT !.cache[input[k].key] =
                                   Some([data |-> k, ts |-> result.now])]
    /\ input' = [input EXCEPT ![k].status = "fetched", ![k].returned = k]
    /\ UNCHANGED <<pc, nameA, nameB, table, answer, op>>

\* The request of call k is answered with !res.ok, or the fetch or the
\* conversion of the body throws: the entry read before the await is returned.
FetchFails(k, how) ==
    /\ pc = "cache"
    /\ input[k].status = "fetching"
    /\ input' = [input EXCEPT ![k].status = how,
                              ![k].returned = staleOrEmpty(input[k].cached)]
    /\ UNCHANGED <<result, pc, nameA, nameB, table, answer, op>>

NextCache ==
    \/ Tick
    \/ \E leagueCode \in {"PL", "SA", "CL"} : GetLeagueXG(leagueCode)
    \/ GetAllEloRatings
    \/ \E k \in 1..Len(input) : FetchSucceeds(k)
    \/ \E k \in 1..Len(input) : \E how \in {"notOk", "threw"} : FetchFails(k, how)

SpecCache == InitCache /\ [][NextCache]_vars

\* The claimed lifetimes, in milliseconds.
ClaimedTTL(fn) == IF fn = "getLeagueXG" THEN 6 * HOUR ELSE 24 * HOUR

\* A call made with an entry younger than the TTL issues no request and
\* returns the entry's data.
ServedFromCache(c) ==
    (Present(c.cached) /\ c.at - Val(c.cached).ts < ClaimedTTL(c.fn)) =>
        /\ ~c.requested
        /\ c.returned = Val(c.cached).data

\* A refresh that failed returns the data cached when the call was made, the
\* empty result if there was none.
FailedRefresh(c) ==
    c.status \in {"notOk", "threw"} =>
        c.returned = IF Present(c.cached) THEN Val(c.cached).data ELSE EmptyData

\* A step that changes the caches is the success of one fetching call and
\* writes, under that call's key only, the fetched data with the time of the
\* write; a step in which a refresh fails leaves the caches as they are.
WrittenBySuccessOnly ==
    /\ result'.cache # result.cache =>
          \E k \in 1..Len(input) :
             /\ input[k].status = "fetching"
             /\ input'[k].status = "fetched"
             /\ result'.cache = [result.cache EXCEPT ![input[k].key] =
                                    Some([data |-> input'[k].returned,
                                          ts |-> result.now])]
    /\ (\E k \in 1..Len(input) :
           input[k].status = "fetching" /\ input'[k].status \in {"notOk", "threw"})
          => result'.cache = result.cache

\* C30: the caches of getLeagueXG (6 h, one entry per league) and of
\* getAllEloRatings (24 h) are written only by a successful fetch; a call made
\* less than the TTL after the entry was written returns the entry without a
\* request; a refresh that fails returns the entry read by the call if there
\* was one, else the empty result, and leaves the caches unchanged.
C30_CacheWrittenOnSuccessOnly ==
    /\ [](pc = "cache" => \A k \in 1..Len(input) :
                             ServedFromCache(input[k]) /\ FailedRefresh(input[k]))
    /\ [][pc = "cache" => WrittenBySuccessOnly]_vars

\* Reached: a refresh made after the entry expired has failed and returned
\* the expired entry, which is still the one in the cache.
C30_Witness ==
    /\ pc = "cache"
    /\ \E k \in 1..Len(input) :
          /\ input[k].status \in {"notOk", "threw"}
          /\ Present(input[k].cached)
          /\ input[k].at - Val(input[k].cached).ts >= ClaimedTTL(input[k].fn)
          /\ input[k].returned = Val(input[k].cached).data
          /\ result.cache[input[k].key] = input[k].cached

====
